---- MODULE Spec2Model ----
(***************************************************************************)
(* Loopi workflow engine: the graph traversal of executeAutomationGraph    *)
(* (src/main/graphExecutor.ts) and of DesktopScheduler.executeWorkflowGraph *)
(* (desktop scheduler), as state machines over a bounded family of          *)
(* workflows.  One action is one synchronous segment of the async code     *)
(* (from one await to the next) or one frame of the recursion.             *)
(***************************************************************************)
EXTENDS Integers, Sequences, FiniteSets, TLC

VARIABLES
    nodes,        \* context.nodes: sequence of [id, nodeType, type, configured, isStart]
    edges,        \* context.edges: sequence of [source, target, sourceHandle]
    nodesMissing, \* TRUE when context.nodes is undefined
    headless,     \* context.headless
    pc,           \* position inside executeAutomationGraph / executeBrowserGraph
    stack,        \* the recursion of executeGraph: one frame per active call
    startQueue,   \* the start nodes the for-loop of line 188 has not reached yet
    iterations,   \* iterations.count
    visited,      \* the visited set
    events,       \* the onNodeStatus calls made so far, in order
    started,      \* the steps / conditional evaluations started so far, in order
    inflight,     \* the operations started and not yet settled
    followed,     \* the edges the traversal has followed, with the condition result
    error,        \* the error currently propagating, or NoError
    executor,     \* the HeadlessExecutor: created?, browser, launch/close counts
    result,       \* how executeAutomationGraph settled, or Pending
    windowManager, \* DesktopScheduler.windowManager: "null", or the state of its window
    stepResults,  \* the stepResults array of a scheduled run
    logs,         \* the execution-log entries written, oldest first
    config,       \* the config argument of evaluateBrowserConditional
    rawValue,     \* the innerText read from the element, or NotRead
    conditionResult, \* the conditionResult returned, or NotEvaluated
    tasks,        \* DesktopScheduler.tasks: scheduleId -> ScheduledTask
    timers,       \* the timer and cron handles that can still fire
    handles,      \* the number of handles created so far
    running,      \* the calls of executeScheduledAutomation in flight
    firings,      \* the firings of timers so far, in order
    executions,   \* the execution-log files written by scheduled firings, in order
    returned,     \* the return value of the last call of the scheduler's API (FALSE before any)
    variables,    \* the variables of the scheduler's one AutomationExecutor: name -> value
    runs,         \* the overlapping scheduled runs: phase, writes and logged snapshot of each
    schedules,    \* ScheduleStore.list(): the persisted schedules, in order
    loading,      \* the call of loadAndActivateSchedules: position, outcomes, how it settled
    logFiles,     \* the files of the schedule_logs directory
    clock,        \* Date.now()
    listing,      \* the last call of getExecutionLogs: its arguments and what it returned
    stopRef,      \* stopGraphExecutionRef.current of useExecution, and the requests to stop
    calls,        \* the calls of SelectorPicker.pickSelector: timer, listeners, outcome of each
    headlessExecutor, \* a HeadlessExecutor called directly: its browser and page fields
    methodCalls,  \* the calls of its methods so far, in order, with what each did
    mirror        \* the scheduled run that an interactive run is compared with, and the outcomes

\* The state of one run of a workflow graph.
graph == <<nodes, edges, nodesMissing, headless, pc, stack, startQueue, iterations,
           visited, events, started, inflight, followed, error, executor, result,
           windowManager, stepResults, logs>>

\* The state of one call of evaluateBrowserConditional.
evaluation == <<config, rawValue, conditionResult>>

\* The state of the DesktopScheduler's tasks and timers.
timing == <<tasks, timers, handles, running, firings, executions, returned>>

\* The state of overlapping scheduled runs on the scheduler's executor.
overlap == <<variables, runs>>

\* The state of loadAndActivateSchedules.
activation == <<schedules, loading>>

\* The state of the execution-log directory.
logging == <<logFiles, clock, listing>>

\* The state of a HeadlessExecutor whose methods are called directly.
direct == <<headlessExecutor, methodCalls>>

vars == <<graph, evaluation, timing, overlap, activation, logging, stopRef, calls, direct, mirror>>

\* What the actions of each component leave alone.
otherThanGraph == <<evaluation, timing, overlap, activation, logging, stopRef, calls, direct, mirror>>
otherThanSession == <<evaluation, timing, overlap, activation, logging, calls, direct, mirror>>
otherThanEvaluation == <<graph, timing, overlap, activation, logging, stopRef, calls, direct, mirror>>
otherThanTiming == <<graph, evaluation, overlap, activation, logging, stopRef, calls, direct, mirror>>
otherThanOverlap == <<graph, evaluation, timing, activation, logging, stopRef, calls, direct, mirror>>
otherThanActivation == <<graph, evaluation, overlap, logging, stopRef, calls, direct, mirror>>
otherThanLogging == <<graph, evaluation, timing, overlap, activation, stopRef, calls, direct, mirror>>
otherThanCalls == <<graph, evaluation, timing, overlap, activation, logging, stopRef, direct, mirror>>
otherThanTimingAndLogging == <<graph, evaluation, overlap, activation, stopRef, calls, direct, mirror>>
otherThanDirect == <<graph, evaluation, timing, overlap, activation, logging, stopRef, calls, mirror>>
otherThanMirror == <<evaluation, timing, overlap, activation, logging, stopRef, calls, direct>>

\* The components that a specification does not run stay as they are created.
OverlapIdle == variables = << >> /\ runs = << >>
ActivationIdle == schedules = <<>> /\ loading = [cursor |-> 0, outcomes |-> <<>>, settled |-> "no"]
LoggingIdle ==
    /\ logFiles = << >>
    /\ clock = 0
    /\ listing = [automationId |-> <<>>, limit |-> 0, entries |-> <<>>]
SessionIdle == stopRef = [current |-> FALSE, requestedAt |-> 0 - 1, phase |-> "none"]
CallsIdle == calls = << >>
DirectIdle == headlessExecutor = [browser |-> "null", page |-> "null"] /\ methodCalls = <<>>
MirrorIdle ==
    mirror = [phase |-> "none", oracle |-> <<>>, started |-> <<>>, followed |-> <<>>,
              visited |-> {}, error |-> [kind |-> "none", node |-> "-"]]
RestIdle ==
    /\ OverlapIdle /\ ActivationIdle /\ LoggingIdle /\ SessionIdle /\ CallsIdle
    /\ DirectIdle /\ MirrorIdle

inputs == <<nodes, edges, nodesMissing, headless, windowManager>>

\* What only a scheduled run (DesktopScheduler) writes.
scheduled == <<stepResults, logs>>

\* What only executeAutomationGraph writes.
interactive == <<events, executor, result>>

----------------------------------------------------------------------------
(* Bounds of the model *)

\* The most nodes of a workflow.
MaxNodes == 3

\* The most edges of a workflow.
MaxEdges == 2

\* Stands for the literal 10000 of `iterations.count++ > 10000` and of
\* maxIterations: the comparison is kept, the number is scaled down so that a
\* runaway loop reaches it.
MaxIterations == 3

----------------------------------------------------------------------------
(* Workflows *)

NodeIds == <<"A", "B", "C", "D">>

\* An id no node carries: an edge naming it is an invalid edge.
NoSuchNode == "X"

\* step.type of a node; "none" is a node without data.step.
StepTypes == {"navigate", "setVariable", "browserConditional", "variableConditional", "none"}

Handles == {"if", "else", "unset"}

browserSteps ==
    {"navigate", "click", "type", "screenshot", "extract", "scroll",
     "selectOption", "fileUpload", "hover", "browserConditional"}

NoError == [kind |-> "none", node |-> "-"]
Pending == [success |-> FALSE, settled |-> FALSE, error |-> NoError]

Range(s) == {s[i] : i \in 1..Len(s)}

SeqsUpTo(S, n) == UNION {[1..k -> S] : k \in 0..n}

NodeById(id) ==
    LET idx == {i \in 1..Len(nodes) : nodes[i].id = id}
    IN  IF idx = {}
        THEN [id |-> NoSuchNode, nodeType |-> "automationStep", type |-> "none",
              configured |-> FALSE, isStart |-> FALSE]
        ELSE nodes[CHOOSE i \in idx : \A j \in idx : i <= j]

HasNode(id) == \E i \in 1..Len(nodes) : nodes[i].id = id

----------------------------------------------------------------------------
(* findStartNodes, graphExecutor.ts 205-235 *)

\* The indices of the edges whose source and target are both ids of nodes.
validEdges(ns, es) ==
    {i \in 1..Len(es) :
        /\ \E k \in 1..Len(ns) : ns[k].id = es[i].source
        /\ \E k \in 1..Len(ns) : ns[k].id = es[i].target}

\* indegree.get(id): the valid edges that end in id.
indegree(ns, es, id) == Cardinality({i \in validEdges(ns, es) : es[i].target = id})

Ids(sel) == [k \in 1..Len(sel) |-> sel[k].id]

\* findStartNodes without the indegree filter: every node is a start node.
findStartNodes_AllNodes(ns, es) == Ids(ns)

\* The ids of the nodes of ns without a valid incoming edge, in node-list order.
findStartNodes(ns, es) ==
    LET zero(n) == indegree(ns, es, n.id) = 0
        sel == SelectSeq(ns, zero)
    IN  Ids(sel)

\* hasBrowserSteps that counts a step of any type.
hasBrowserSteps_AnyStep(ns) == \E k \in 1..Len(ns) : ns[k].type # "none"

\* Lines 39-53: some node has a step whose type is in the browserSteps list.
hasBrowserSteps(ns) == \E k \in 1..Len(ns) : ns[k].type # "none" /\ ns[k].type \in browserSteps

----------------------------------------------------------------------------
(* executeGraph, graphExecutor.ts 102-181 *)

isConditionalNode(n) == n.type \in {"browserConditional", "variableConditional"}

\* Line 107, `iterations.count++ > 10000`, on the value before the increment.
IterationLimitReached(count) == count > MaxIterations

\* The edge list walked from its end.
EdgeIndices_Reversed(es) == [i \in 1..Len(es) |-> Len(es) + 1 - i]

\* The indices of the edge list es, in edge-list order (what edges.filter runs over).
EdgeIndices(es) == [i \in 1..Len(es) |-> i]

\* nextNodes without the branch filter: a conditional node follows all its edges.
nextNodes_AllEdges(n, cond, es) ==
    LET keepAll(i) == es[i].source = n.id
    IN  SelectSeq(EdgeIndices(es), keepAll)

\* Lines 164-172: the edges to follow out of node n after its step; cond is
\* "true" or "false" for an evaluated conditional and "undefined" otherwise.
nextNodes(n, cond, es) ==
    LET branch == IF cond = "true" THEN "if" ELSE "else"
        keepBranch(i) == es[i].source = n.id /\ es[i].sourceHandle = branch
        keepAll(i) == es[i].source = n.id
    IN  IF isConditionalNode(n) /\ cond # "undefined"
        THEN SelectSeq(EdgeIndices(es), keepBranch)
        ELSE SelectSeq(EdgeIndices(es), keepAll)

Frame(id) == [nodeId |-> id, phase |-> "call", cond |-> "undefined", next |-> <<>>, op |-> 0]

Top == stack[Len(stack)]
Pop == SubSeq(stack, 1, Len(stack) - 1)
ReplaceTop(f) == [stack EXCEPT ![Len(stack)] = f]

Event(id, status, err) == [node |-> id, status |-> status, error |-> err]

LimitError == [kind |-> "Maximum iteration limit reached", node |-> "-"]
NoNodesError == [kind |-> "No nodes to execute", node |-> "-"]
NoStartError == [kind |-> "No start nodes found in workflow", node |-> "-"]
StepError(id) == [kind |-> "step failed", node |-> id]
NotConfigured(id) == [kind |-> "conditional fields required", node |-> id]
LaunchError == [kind |-> "launch failed", node |-> "-"]
CloseError == [kind |-> "close failed", node |-> "-"]

\* The operation is started and not awaited: the frame goes on to its edges.
AwaitOperation_NotAwaited(f, op) ==
    [f EXCEPT !.phase = "follow", !.next = nextNodes(NodeById(f.nodeId), "undefined", edges)]

\* Line 154 / 119: the frame that has started operation op and awaits it.
AwaitOperation(f, op) == [f EXCEPT !.phase = "await", !.op = op]

\* Lines 157-172: the frame after its step settled well with condition cond.
AfterSuccess(f, n, cond) ==
    [f EXCEPT !.phase = "follow", !.cond = cond, !.next = nextNodes(n, cond, edges), !.op = 0]

\* A call that also returns when the node is in the visited set already.
returnsEarly_WhenVisited(id, seen) == ~HasNode(id) \/ id \in seen

\* Lines 109-112: the call returns without doing anything only when the id is
\* the id of no node; the visited set (seen) is not consulted.
returnsEarly(id, seen) == ~HasNode(id)

\* Lines 107-155 of a call executeGraph(nodeId), up to its first await.
Enter ==
    /\ pc = "loop" /\ stack # <<>> /\ error = NoError
    /\ Top.phase = "call"
    /\ LET id == Top.nodeId
           n == NodeById(id)
       IN
       /\ iterations' = iterations + 1
       /\ IF IterationLimitReached(iterations)
          THEN /\ error' = LimitError
               /\ stack' = Pop
               /\ UNCHANGED <<visited, events, started, inflight>>
          ELSE /\ visited' = visited \cup {id}
               /\ IF returnsEarly(id, visited)
                  THEN /\ stack' = Pop
                       /\ UNCHANGED <<events, started, inflight, error>>
                  ELSE
                  CASE isConditionalNode(n) /\ ~n.configured ->
                        /\ events' = events \o <<Event(id, "running", NoError),
                                                 Event(id, "error", NotConfigured(id))>>
                        /\ error' = NotConfigured(id)
                        /\ stack' = Pop
                        /\ UNCHANGED <<started, inflight>>
                    [] n.type = "variableConditional" /\ n.configured ->
                        \E b \in {"true", "false"} :
                            /\ events' = events \o <<Event(id, "running", NoError),
                                                     Event(id, "success", NoError)>>
                            /\ started' = Append(started, id)
                            /\ stack' = ReplaceTop(AfterSuccess(Top, n, b))
                            /\ UNCHANGED <<inflight, error>>
                    [] n.type = "none" ->
                        /\ events' = events \o <<Event(id, "running", NoError),
                                                 Event(id, "success", NoError)>>
                        /\ stack' = ReplaceTop(AfterSuccess(Top, n, "undefined"))
                        /\ UNCHANGED <<started, inflight, error>>
                    [] OTHER ->
                        /\ events' = Append(events, Event(id, "running", NoError))
                        /\ started' = Append(started, id)
                        /\ inflight' = inflight \cup {Len(started) + 1}
                        /\ stack' = ReplaceTop(AwaitOperation(Top, Len(started) + 1))
                        /\ UNCHANGED error
    /\ UNCHANGED <<otherThanGraph, inputs, scheduled, pc, startQueue, followed, executor, result>>

\* The awaited executeStep / evaluateBrowserConditional settles (lines 119-157,
\* and the catch of 177-180 when it rejects).
Settle ==
    /\ pc = "loop"
    /\ \E op \in inflight :
        /\ inflight' = inflight \ {op}
        /\ IF stack # <<>> /\ Top.phase = "await" /\ Top.op = op
           THEN LET id == Top.nodeId
                    n == NodeById(id)
                    outcomes == IF n.type = "browserConditional"
                                THEN {"true", "false", "fail"}
                                ELSE {"undefined", "fail"}
                IN  \E o \in outcomes :
                      IF o = "fail"
                      THEN /\ events' = Append(events, Event(id, "error", StepError(id)))
                           /\ error' = StepError(id)
                           /\ stack' = Pop
                      ELSE /\ events' = Append(events, Event(id, "success", NoError))
                           /\ stack' = ReplaceTop(AfterSuccess(Top, n, o))
                           /\ UNCHANGED error
           ELSE UNCHANGED <<events, error, stack>>
    /\ UNCHANGED <<otherThanGraph, inputs, scheduled, pc, startQueue, iterations, visited, started, followed,
                   executor, result>>

\* Lines 174-176: the for-loop over nextNodes issues the next recursive call,
\* or the call returns when the loop is over.
Follow ==
    /\ pc = "loop" /\ stack # <<>> /\ error = NoError
    /\ Top.phase = "follow"
    /\ IF Top.next = <<>>
       THEN /\ stack' = Pop
            /\ UNCHANGED followed
       ELSE LET e == Head(Top.next)
            IN  /\ stack' = Append(ReplaceTop([Top EXCEPT !.next = Tail(Top.next)]),
                                   Frame(edges[e].target))
                /\ followed' = Append(followed, [edge |-> e, from |-> Top.nodeId,
                                                 cond |-> Top.cond])
    /\ UNCHANGED <<otherThanGraph, inputs, scheduled, pc, startQueue, iterations, visited, events, started,
                   inflight, error, executor, result>>

\* Lines 177-180 in a caller: the rejected recursive call lands in the catch of
\* the frame that awaited it, which reports the error and throws it on.
Unwind ==
    /\ pc = "loop" /\ stack # <<>> /\ error # NoError
    /\ events' = Append(events, Event(Top.nodeId, "error", error))
    /\ stack' = Pop
    /\ UNCHANGED <<otherThanGraph, inputs, scheduled, pc, startQueue, iterations, visited, started, inflight,
                   followed, error, executor, result>>

----------------------------------------------------------------------------
(* HeadlessExecutor.launch / close *)

NoExecutor == [created |-> FALSE, browser |-> "null", launches |-> 0, closes |-> 0]

\* close() that leaves the browser field set after browser.close() resolved.
close_FieldKept(ex, ok) ==
    IF ex.browser \in {"open", "closed"}
    THEN [ex EXCEPT !.closes = @ + 1, !.browser = IF ok THEN "closed" ELSE "open"]
    ELSE ex

\* HeadlessExecutor.close(): browser.close() is called only on a browser that
\* is set; it resolves (ok) or rejects, and the field is cleared after it
\* resolved.  Yields the executor afterwards.
close(ex, ok) ==
    IF ex.browser = "open"
    THEN [ex EXCEPT !.closes = @ + 1, !.browser = IF ok THEN "null" ELSE "open"]
    ELSE ex

\* TRUE when close() on ex with outcome ok throws.
closeThrows(ex, ok) == ex.browser = "open" /\ ~ok

----------------------------------------------------------------------------
(* executeAutomationGraph, graphExecutor.ts 29-80, and executeBrowserGraph 183-199 *)

Rejected(err) == [success |-> FALSE, settled |-> TRUE, error |-> err]
Resolved == [success |-> TRUE, settled |-> TRUE, error |-> NoError]

\* The guard of line 34 left out.
noNodes_Unchecked(ns, missing) == FALSE

\* Line 34, `!nodes || nodes.length === 0`.
noNodes(ns, missing) == missing \/ Len(ns) = 0

\* Lines 32-62: the guard on the node list, then the decision to launch.
Begin ==
    /\ pc = "entry"
    /\ IF noNodes(nodes, nodesMissing)
       THEN /\ result' = Rejected(NoNodesError)
            /\ pc' = "done"
            /\ UNCHANGED executor
       ELSE IF headless /\ hasBrowserSteps(nodes)
       THEN /\ executor' = [executor EXCEPT !.created = TRUE]
            /\ pc' = "launch"
            /\ UNCHANGED result
       ELSE /\ pc' = "graph"
            /\ UNCHANGED <<executor, result>>
    /\ UNCHANGED <<otherThanGraph, inputs, scheduled, stack, startQueue, iterations, visited, events, started,
                   inflight, followed, error>>

\* Line 61, `await headlessExecutor.launch()`: puppeteer.launch resolves and the
\* page is set up, or puppeteer.launch rejects (no browser), or newPage /
\* setViewport rejects (the browser field is already set).
LaunchSettle ==
    /\ pc = "launch"
    /\ \E o \in {"ok", "noBrowser", "noPage"} :
        /\ executor' = IF o = "noBrowser" THEN executor
                       ELSE [executor EXCEPT !.browser = "open", !.launches = @ + 1]
        /\ IF o = "ok"
           THEN pc' = "graph" /\ UNCHANGED error
           ELSE pc' = "catch" /\ error' = LaunchError
    /\ UNCHANGED <<otherThanGraph, inputs, scheduled, stack, startQueue, iterations, visited, events, started,
                   inflight, followed, result>>

\* Lines 183-186: start nodes, visited set and counter of the run.
FindStart ==
    /\ pc = "graph"
    /\ LET startNodes == findStartNodes(nodes, edges)
       IN  IF startNodes = <<>>
           THEN /\ error' = NoStartError
                /\ pc' = "finally"
                /\ UNCHANGED startQueue
           ELSE /\ startQueue' = startNodes
                /\ pc' = "loop"
                /\ UNCHANGED error
    /\ iterations' = 0
    /\ visited' = {}
    /\ UNCHANGED <<otherThanGraph, inputs, scheduled, stack, events, started, inflight, followed, executor, result>>

\* Lines 188-192: the loop over the start nodes; it ends in `return` or, when a
\* traversal threw, leaves the try block with the error.
NextStart ==
    /\ pc = "loop" /\ stack = <<>> /\ inflight = {}
    /\ IF error # NoError \/ startQueue = <<>>
       THEN /\ pc' = "finally"
            /\ UNCHANGED <<stack, startQueue>>
       ELSE /\ stack' = <<Frame(Head(startQueue))>>
            /\ startQueue' = Tail(startQueue)
            /\ UNCHANGED pc
    /\ UNCHANGED <<otherThanGraph, inputs, scheduled, iterations, visited, events, started, inflight, followed,
                   error, executor, result>>

\* Lines 193-199: the finally block closes the executor; an error of close()
\* replaces the pending outcome.
FinallyClose ==
    /\ pc = "finally"
    /\ \E ok \in BOOLEAN :
        LET thrown == IF executor.created /\ closeThrows(executor, ok)
                      THEN CloseError ELSE error
        IN  /\ executor' = IF executor.created THEN close(executor, ok) ELSE executor
            /\ error' = thrown
            /\ IF thrown = NoError
               THEN result' = Resolved /\ pc' = "done"
               ELSE pc' = "catch" /\ UNCHANGED result
    /\ UNCHANGED <<otherThanGraph, inputs, scheduled, stack, startQueue, iterations, visited, events, started,
                   inflight, followed>>

\* Lines 73-79: the catch of executeAutomationGraph closes again and rethrows.
CatchClose ==
    /\ pc = "catch"
    /\ \E ok \in BOOLEAN :
        LET thrown == IF executor.created /\ closeThrows(executor, ok)
                      THEN CloseError ELSE error
        IN  /\ executor' = IF executor.created THEN close(executor, ok) ELSE executor
            /\ error' = thrown
            /\ result' = Rejected(thrown)
            /\ pc' = "done"
    /\ UNCHANGED <<otherThanGraph, inputs, scheduled, stack, startQueue, iterations, visited, events, started,
                   inflight, followed>>

----------------------------------------------------------------------------
(* HeadlessExecutor.evaluateBrowserConditional *)

\* A text is a sequence of characters.  The characters of the texts that are
\* enumerated: two digits, the characters a number is written with, a currency
\* sign and a letter.
Chars == {"1", "2", ".", "-", "$", "a"}

\* The longest element text enumerated.
MaxTextLen == 3

\* The longest expectedValue enumerated.
MaxExpectedLen == 2

\* The texts of spec section 8: "$1,234.50" against "1000", "85%" against "85".
PriceText == <<"$", "1", ",", "2", "3", "4", ".", "5", "0">>
PercentText == <<"8", "5", "%">>
Thousand == <<"1", "0", "0", "0">>
EightyFive == <<"8", "5">>

ElementTexts == SeqsUpTo(Chars, MaxTextLen) \cup {PriceText, PercentText}
ExpectedValues == SeqsUpTo(Chars, MaxExpectedLen) \cup {Thousand, EightyFive}

\* rawValue before and after the page returned the text.
NotRead == [read |-> FALSE, text |-> <<>>]
Read(text) == [read |-> TRUE, text |-> text]

\* How the call has settled: not yet, with a conditionResult, or with an error.
NotEvaluated == [settled |-> "no", value |-> FALSE]
Returned(value) == [settled |-> "returned", value |-> value]
Threw == [settled |-> "threw", value |-> FALSE]

Digits == <<"0", "1", "2", "3", "4", "5", "6", "7", "8", "9">>
IsDigit(c) == \E i \in 1..10 : Digits[i] = c
DigitValue(c) == (CHOOSE i \in 1..10 : Digits[i] = c) - 1

\* Line 243, s.replace(/[$ euro pound , \s]/g, "").
stripCurrency(s) == SelectSeq(s, LAMBDA c : c \notin {"$", ",", " "})

\* Lines 245, 333 and 334, s.replace(/[^0-9.-]/g, "").
stripNonNumeric(s) == SelectSeq(s, LAMBDA c : IsDigit(c) \/ c \in {".", "-"})

\* Lines 247-248: every occurrence of every character of chars is taken out.
removeChars(s, chars) == SelectSeq(s, LAMBDA c : c \notin Range(chars))

\* applyTransform, lines 238-260 (the transform types other than regexReplace).
applyTransform(raw, cfg) ==
    IF raw = <<>> THEN raw
    ELSE CASE cfg.transformType = "stripCurrency" -> stripCurrency(raw)
           [] cfg.transformType = "stripNonNumeric" -> stripNonNumeric(raw)
           [] cfg.transformType = "removeChars" /\ cfg.transformChars # <<>> ->
                removeChars(raw, cfg.transformChars)
           [] OTHER -> raw

\* A number is num / 10^scale, or NaN.
NaN == [nan |-> TRUE, num |-> 0, scale |-> 0]

RECURSIVE Pow10(_)
Pow10(k) == IF k = 0 THEN 1 ELSE 10 * Pow10(k - 1)

\* The number of leading blanks of s.
RECURSIVE Blanks(_, _)
Blanks(s, i) == IF i <= Len(s) /\ s[i] = " " THEN 1 + Blanks(s, i + 1) ELSE 0

\* The length of the run of digits of s that starts at position i.
RECURSIVE DigitRun(_, _)
DigitRun(s, i) == IF i <= Len(s) /\ IsDigit(s[i]) THEN 1 + DigitRun(s, i + 1) ELSE 0

RECURSIVE ToNat(_)
ToNat(ds) ==
    IF ds = <<>> THEN 0
    ELSE 10 * ToNat(SubSeq(ds, 1, Len(ds) - 1)) + DigitValue(ds[Len(ds)])

\* parseFloat on a text without exponent and without "Infinity": leading
\* blanks, a sign, then the longest prefix digits[.digits] or .digits; NaN
\* when there is no digit.
parseFloat(s) ==
    LET b == Blanks(s, 1)
        signed == b + 1 <= Len(s) /\ s[b + 1] \in {"-", "+"}
        neg == signed /\ s[b + 1] = "-"
        i == IF signed THEN b + 2 ELSE b + 1
        n == DigitRun(s, i)
        dot == i + n <= Len(s) /\ s[i + n] = "."
        m == IF dot THEN DigitRun(s, i + n + 1) ELSE 0
        mag == ToNat(SubSeq(s, i, i + n - 1) \o SubSeq(s, i + n + 1, i + n + m))
    IN  IF n = 0 /\ m = 0 THEN NaN
        ELSE [nan |-> FALSE, num |-> IF neg THEN 0 - mag ELSE mag, scale |-> m]

\* a > b on numbers: false when either is NaN.
Greater(a, b) == ~a.nan /\ ~b.nan /\ a.num * Pow10(b.scale) > b.num * Pow10(a.scale)

\* a === b on numbers: false when either is NaN.
NumberEquals(a, b) == ~a.nan /\ ~b.nan /\ a.num * Pow10(b.scale) = b.num * Pow10(a.scale)

\* transformed.includes(expected).
includes(s, t) == \E i \in 0..(Len(s) - Len(t)) : SubSeq(s, i + 1, i + Len(t)) = t

\* Line 323, config.condition || "equals".
operator(cfg) == IF cfg.condition = "" THEN "equals" ELSE cfg.condition

\* The numeric comparison with the NaN tests left out.
numericCompare_NaNUnchecked(op, transformed, expected) ==
    LET a == parseFloat(stripNonNumeric(transformed))
        b == parseFloat(stripNonNumeric(expected))
    IN  CASE op = "greaterThan" -> a.num * Pow10(b.scale) > b.num * Pow10(a.scale)
          [] op = "lessThan" -> a.num * Pow10(b.scale) < b.num * Pow10(a.scale)
          [] op = "contains" -> includes(transformed, expected)
          [] OTHER -> a.num * Pow10(b.scale) = b.num * Pow10(a.scale)

\* Lines 333-344: the comparison when parseAsNumber is set.
numericCompare(op, transformed, expected) ==
    LET a == parseFloat(stripNonNumeric(transformed))
        b == parseFloat(stripNonNumeric(expected))
    IN  /\ ~a.nan
        /\ ~b.nan
        /\ CASE op = "greaterThan" -> Greater(a, b)
             [] op = "lessThan" -> Greater(b, a)
             [] op = "contains" -> includes(transformed, expected)
             [] OTHER -> NumberEquals(a, b)

\* Lines 350-357: the comparison when parseAsNumber is not set.
textCompare(op, transformed, expected) ==
    CASE op = "contains" -> includes(transformed, expected)
      [] op = "greaterThan" -> Greater(parseFloat(transformed), parseFloat(expected))
      [] op = "lessThan" -> Greater(parseFloat(expected), parseFloat(transformed))
      [] OTHER -> transformed = expected

\* Lines 321-358: the result of valueMatches on the text raw.
valueMatches(cfg, raw) ==
    LET transformed == applyTransform(raw, cfg)
    IN  IF cfg.parseAsNumber
        THEN numericCompare(operator(cfg), transformed, cfg.expectedValue)
        ELSE textCompare(operator(cfg), transformed, cfg.expectedValue)

\* Lines 224-227: the condition type is required.
RejectConfig ==
    /\ conditionResult = NotEvaluated
    /\ config.browserConditionType = ""
    /\ conditionResult' = Threw
    /\ UNCHANGED <<otherThanEvaluation, config, rawValue>>

\* Lines 264-287: elementExists is what the page says.
ElementExists ==
    /\ conditionResult = NotEvaluated
    /\ config.browserConditionType = "elementExists"
    /\ \E found \in BOOLEAN : conditionResult' = Returned(found)
    /\ UNCHANGED <<otherThanEvaluation, config, rawValue>>

\* Lines 297-319: the page returns the innerText of the element, or "".
ReadElement ==
    /\ conditionResult = NotEvaluated /\ rawValue = NotRead
    /\ config.browserConditionType = "valueMatches"
    /\ \E text \in ElementTexts : rawValue' = Read(text)
    /\ UNCHANGED <<otherThanEvaluation, config, conditionResult>>

\* Lines 321-368: transform, compare, return.
ValueMatches ==
    /\ conditionResult = NotEvaluated /\ rawValue.read
    /\ conditionResult' = Returned(valueMatches(config, rawValue.text))
    /\ UNCHANGED <<otherThanEvaluation, config, rawValue>>

Operators == {"", "equals", "contains", "greaterThan", "lessThan"}

\* The transforms enumerated: none, the two strip transforms, and removeChars
\* without characters and with characters.
Transforms ==
    {[transformType |-> "none", transformChars |-> <<>>],
     [transformType |-> "stripCurrency", transformChars |-> <<>>],
     [transformType |-> "stripNonNumeric", transformChars |-> <<>>],
     [transformType |-> "removeChars", transformChars |-> <<>>],
     [transformType |-> "removeChars", transformChars |-> <<"%", "a">>]}

Config(type, expected, op, tr, asNumber) ==
    [browserConditionType |-> type, expectedValue |-> expected, condition |-> op,
     transformType |-> tr.transformType, transformChars |-> tr.transformChars,
     parseAsNumber |-> asNumber]

NoConfig == Config("", <<>>, "", [transformType |-> "none", transformChars |-> <<>>], FALSE)

\* No call of evaluateBrowserConditional is modelled.
EvaluationIdle ==
    /\ config = NoConfig
    /\ rawValue = NotRead
    /\ conditionResult = NotEvaluated

----------------------------------------------------------------------------
(* DesktopScheduler: tasks and timers *)

\* The most timer and cron handles created.
MaxHandles == 2

\* The most timer firings.
MaxFirings == 2

\* The schedule ids of the calls; "w1" is also the id of the automation.
ScheduleIds == {"s1", "w1"}

AutomationIds == {"w1"}

\* automation.schedule: missing, manual, an interval, a cron expression that
\* node-cron accepts or not, or a datetime before or after the time of the call.
Schedule(type, expression, datetime) ==
    [type |-> type, expression |-> expression, datetime |-> datetime]

Schedules ==
    {Schedule("none", "-", "-"), Schedule("manual", "-", "-"),
     Schedule("interval", "-", "-"),
     Schedule("cron", "valid", "-"), Schedule("cron", "invalid", "-"),
     Schedule("once", "-", "past"), Schedule("once", "-", "future")}

\* A StoredAutomation as the scheduler reads it: enabled is optional.
Automations ==
    {a \in [id : AutomationIds, schedule : Schedules, hasEnabled : BOOLEAN, enabled : BOOLEAN] :
        a.enabled => a.hasEnabled}

\* `if (automation.enabled)` in the timer callbacks.
truthyEnabled(a) == a.hasEnabled /\ a.enabled

\* Line 461, `automation.enabled ?? true`.
enabledOrTrue(a) == IF a.hasEnabled THEN a.enabled ELSE TRUE

\* A handle that is not set (undefined).
NoHandle == 0

Timer(h, type, a) == [h |-> h, type |-> type, automation |-> a]

\* A delete that leaves the map as it is.
Without_TaskKept(ts, sid) == ts

\* A set that leaves the map as it is.
With_NotSet(ts, sid, task) == ts

\* this.tasks.delete(scheduleId), line 829, and this.tasks.set, line 475.
Without(ts, sid) == [s \in (DOMAIN ts) \ {sid} |-> ts[s]]
With(ts, sid, task) == [s \in (DOMAIN ts) \cup {sid} |-> IF s = sid THEN task ELSE ts[s]]

\* unscheduleAutomation that deletes the task and leaves its handles running.
unscheduleAutomation_HandlesKept(st, sid) ==
    IF sid \notin DOMAIN st.tasks
    THEN [tasks |-> st.tasks, timers |-> st.timers, found |-> FALSE]
    ELSE [tasks |-> Without(st.tasks, sid), timers |-> st.timers, found |-> TRUE]

\* unscheduleAutomation, lines 817-832, on the tasks and timers st: the cron
\* task is stopped, the timer is cleared, the task is deleted.
unscheduleAutomation(st, sid) ==
    IF sid \notin DOMAIN st.tasks
    THEN [tasks |-> st.tasks, timers |-> st.timers, found |-> FALSE]
    ELSE LET task == st.tasks[sid]
             stopped == {t \in st.timers : t.h # NoHandle /\ t.h \in {task.cronTask, task.intervalId}}
         IN  [tasks |-> Without(st.tasks, sid), timers |-> st.timers \ stopped, found |-> TRUE]

\* A call of executeScheduledAutomation in flight: the automation, the handle of
\* the timer it was started for, and whether the timer callback unschedules
\* after it (lines 548-550).
Run(n, a, h, unschedules) ==
    [run |-> n, automation |-> a, handle |-> h, unschedules |-> unschedules]

RunsStarted == Cardinality(running) + Len(executions)

\* The task registered with handle h, if there is one.
TaskOf(h) ==
    LET owners == {s \in DOMAIN tasks : h \in {tasks[s].cronTask, tasks[s].intervalId}}
    IN  IF owners = {} THEN "none" ELSE CHOOSE s \in owners : TRUE

\* scheduleAutomation(automation, scheduleId), lines 448-481, with
\* scheduleInterval, scheduleCron and scheduleOnce: what it makes of the tasks,
\* timers, handles and runs, and what it returns.
scheduleAutomation(a, sid) ==
    IF a.schedule.type \in {"none", "manual"}
    THEN [tasks |-> tasks, timers |-> timers, handles |-> handles, running |-> running,
          returned |-> FALSE]
    ELSE
    LET st == unscheduleAutomation([tasks |-> tasks, timers |-> timers], sid)
        h == handles + 1
        type == a.schedule.type
        installed == ~(type = "cron" /\ a.schedule.expression = "invalid")
        past == type = "once" /\ a.schedule.datetime = "past"
        task == [scheduleId |-> sid, automationId |-> a.id, schedule |-> a.schedule,
                 cronTask |-> IF type = "cron" /\ installed THEN h ELSE NoHandle,
                 intervalId |-> IF type \in {"interval", "once"} THEN h ELSE NoHandle,
                 enabled |-> enabledOrTrue(a)]
    IN  [tasks |-> With(st.tasks, sid, task),
         timers |-> IF installed
                    THEN st.timers \cup {Timer(h, IF past THEN "noop" ELSE type, a)}
                    ELSE st.timers,
         handles |-> IF installed THEN h ELSE handles,
         running |-> IF past
                     THEN running \cup {Run(RunsStarted + 1, a, h, FALSE)}
                     ELSE running,
         returned |-> TRUE]

\* scheduleAutomation called from outside, while handles are left.
CallSchedule ==
    /\ \E a \in Automations, sid \in ScheduleIds :
           LET r == scheduleAutomation(a, sid)
           IN  /\ r.returned => handles < MaxHandles
               /\ tasks' = r.tasks
               /\ timers' = r.timers
               /\ handles' = r.handles
               /\ running' = r.running
               /\ returned' = r.returned
    /\ UNCHANGED <<otherThanTiming, firings, executions>>

\* unscheduleAutomation(scheduleId) called from outside.
CallUnschedule ==
    /\ \E sid \in ScheduleIds :
        LET st == unscheduleAutomation([tasks |-> tasks, timers |-> timers], sid)
        IN  /\ tasks' = st.tasks
            /\ timers' = st.timers
            /\ returned' = st.found
    /\ UNCHANGED <<otherThanTiming, handles, running, firings, executions>>

\* toggleAutomation(scheduleId, enabled), lines 837-846.
CallToggle ==
    /\ \E sid \in ScheduleIds, enabled \in BOOLEAN :
        IF sid \notin DOMAIN tasks
        THEN /\ returned' = FALSE
             /\ UNCHANGED tasks
        ELSE /\ tasks' = [tasks EXCEPT ![sid].enabled = enabled]
             /\ returned' = TRUE
    /\ UNCHANGED <<otherThanTiming, timers, handles, running, firings, executions>>

\* cleanup(), lines 893-898: every task is unscheduled.
CallCleanup ==
    /\ tasks' = << >>
    /\ timers' = {t \in timers : TaskOf(t.h) = "none"}
    /\ returned' = TRUE
    /\ UNCHANGED <<otherThanTiming, handles, running, firings, executions>>

\* getScheduledTasks(), lines 851-863.
getScheduledTasks ==
    {[scheduleId |-> tasks[s].scheduleId, automationId |-> tasks[s].automationId,
      schedule |-> tasks[s].schedule, enabled |-> tasks[s].enabled] : s \in DOMAIN tasks}

\* What getScheduledTasks reports as the enabled flag of the task of handle h.
ReportedEnabled(h) ==
    IF TaskOf(h) = "none" THEN "no task"
    ELSE IF tasks[TaskOf(h)].enabled THEN "enabled" ELSE "disabled"

\* A timer or cron handle fires: the callbacks of lines 490-494, 512-516,
\* 541-543 and 546-552 up to their first await.
TimerFires ==
    /\ Len(firings) < MaxFirings
    /\ \E t \in timers :
        LET starts == t.type # "noop" /\ truthyEnabled(t.automation)
        IN  /\ firings' = Append(firings, [handle |-> t.h, type |-> t.type,
                                           scheduleId |-> TaskOf(t.h),
                                           reported |-> ReportedEnabled(t.h),
                                           ran |-> starts])
            /\ timers' = IF t.type \in {"once", "noop"} THEN timers \ {t} ELSE timers
            /\ running' = IF starts
                          THEN running \cup {Run(RunsStarted + 1, t.automation, t.h,
                                                 t.type = "once")}
                          ELSE running
    /\ UNCHANGED <<otherThanTiming, tasks, handles, executions, returned>>

\* executeScheduledAutomation ends (lines 600-609: the log file is written), and
\* the callback of a once timer goes on to line 550.
RunEnds ==
    /\ \E r \in running :
        LET st == IF r.unschedules
                  THEN unscheduleAutomation([tasks |-> tasks, timers |-> timers],
                                            r.automation.id)
                  ELSE [tasks |-> tasks, timers |-> timers, found |-> FALSE]
        IN  /\ running' = running \ {r}
            /\ executions' = Append(executions, [automationId |-> r.automation.id,
                                                 handle |-> r.handle])
            /\ tasks' = st.tasks
            /\ timers' = st.timers
    /\ UNCHANGED <<otherThanTiming, handles, firings, returned>>

\* No scheduler is modelled: a new DesktopScheduler, never called.
TimingIdle ==
    /\ tasks = << >>
    /\ timers = {}
    /\ handles = 0
    /\ running = {}
    /\ firings = <<>>
    /\ executions = <<>>
    /\ returned = FALSE

\* No workflow graph is run.
GraphIdle ==
    /\ nodes = <<>> /\ edges = <<>> /\ nodesMissing = FALSE /\ headless = FALSE
    /\ windowManager = "null" /\ stepResults = <<>> /\ logs = <<>>
    /\ pc = "idle" /\ stack = <<>> /\ startQueue = <<>> /\ iterations = 0
    /\ visited = {} /\ events = <<>> /\ started = <<>> /\ inflight = {}
    /\ followed = <<>> /\ error = NoError /\ executor = NoExecutor /\ result = Pending

TimerInit == GraphIdle /\ EvaluationIdle /\ TimingIdle /\ RestIdle

TimerNext ==
    \/ CallSchedule
    \/ CallUnschedule
    \/ CallToggle
    \/ CallCleanup
    \/ TimerFires
    \/ RunEnds

TimerSpec == TimerInit /\ [][TimerNext]_vars

\* A call of evaluateBrowserConditional with any of the enumerated configs.
CondInit ==
    /\ GraphIdle /\ TimingIdle /\ RestIdle
    /\ \E type \in {"", "elementExists", "valueMatches"}, expected \in ExpectedValues,
          op \in Operators, tr \in Transforms, asNumber \in BOOLEAN :
          /\ config = Config(type, expected, op, tr, asNumber)
          /\ type # "valueMatches" => config = [NoConfig EXCEPT !.browserConditionType = type]
    /\ rawValue = NotRead
    /\ conditionResult = NotEvaluated

CondNext ==
    \/ RejectConfig
    \/ ElementExists
    \/ ReadElement
    \/ ValueMatches

CondSpec == CondInit /\ [][CondNext]_vars

----------------------------------------------------------------------------
(* DesktopScheduler.loadAndActivateSchedules *)

\* The longest list of persisted schedules.
MaxSchedules == 2

\* The records of the ScheduleStore: id, workflowId, enabled and the schedule
\* (a stored schedule always has one).
StoredSchedules ==
    [id : ScheduleIds, workflowId : AutomationIds, enabled : BOOLEAN,
     schedule : Schedules \ {Schedule("none", "-", "-")}]

\* A loop that skips no schedule.
skipped_Never(schedule) == FALSE

\* Lines 912-917: a schedule that is not enabled is passed over.
skipped(schedule) == ~schedule.enabled

\* Lines 930-934: the loaded workflow with the schedule's schedule and enabled.
workflowWithSchedule(schedule) ==
    [id |-> schedule.workflowId, schedule |-> schedule.schedule,
     hasEnabled |-> TRUE, enabled |-> schedule.enabled]

\* Lines 904-910: the store is imported and listed, or that throws and the
\* catch of line 941 ends the call.
LoadBegin ==
    /\ loading.cursor = 0 /\ loading.settled = "no"
    /\ \E ok \in BOOLEAN :
         loading' = IF ok THEN [loading EXCEPT !.cursor = 1]
                    ELSE [loading EXCEPT !.settled = "resolved",
                                         !.outcomes = <<"list failed">>]
    /\ UNCHANGED <<otherThanActivation, timing, schedules>>

\* Lines 911-937, one round of the loop: a disabled schedule is passed over;
\* else the workflow is loaded, which gives the workflow, gives nothing, or
\* fails (then the catch of line 941 ends the call); a loaded workflow is
\* scheduled under the schedule's id.
LoadStep ==
    /\ loading.settled = "no" /\ loading.cursor \in 1..Len(schedules)
    /\ LET schedule == schedules[loading.cursor]
       IN  \E outcome \in IF skipped(schedule) THEN {"disabled"}
                          ELSE {"workflow", "null", "rejects"} :
             /\ loading' = [cursor |-> IF outcome = "rejects" THEN loading.cursor
                                        ELSE loading.cursor + 1,
                            outcomes |-> Append(loading.outcomes, outcome),
                            settled |-> IF outcome = "rejects" THEN "resolved" ELSE "no"]
             /\ IF outcome = "workflow"
                THEN LET r == scheduleAutomation(workflowWithSchedule(schedule), schedule.id)
                     IN  /\ tasks' = r.tasks
                         /\ timers' = r.timers
                         /\ handles' = r.handles
                         /\ running' = r.running
                         /\ returned' = r.returned
                ELSE UNCHANGED <<tasks, timers, handles, running, returned>>
    /\ UNCHANGED <<otherThanActivation, firings, executions, schedules>>

\* Lines 939-940: the loop is over and the call returns.
LoadEnd ==
    /\ loading.settled = "no" /\ loading.cursor = Len(schedules) + 1
    /\ loading' = [loading EXCEPT !.settled = "resolved"]
    /\ UNCHANGED <<otherThanActivation, timing, schedules>>

\* A new scheduler and a store of schedules with distinct ids.
LoadInit ==
    /\ GraphIdle /\ EvaluationIdle /\ TimingIdle
    /\ OverlapIdle /\ LoggingIdle /\ SessionIdle /\ CallsIdle
    /\ DirectIdle /\ MirrorIdle
    /\ schedules \in SeqsUpTo(StoredSchedules, MaxSchedules)
    /\ \A i, j \in 1..Len(schedules) : i # j => schedules[i].id # schedules[j].id
    /\ loading = [cursor |-> 0, outcomes |-> <<>>, settled |-> "no"]

LoadNext ==
    \/ LoadBegin
    \/ LoadStep
    \/ LoadEnd

LoadSpec == LoadInit /\ [][LoadNext]_vars

----------------------------------------------------------------------------
(* DesktopScheduler: scheduled runs on the scheduler's AutomationExecutor *)

\* The scheduled runs that can overlap, and the variables their steps set.
MaxRuns == 2
RunIds == 1..MaxRuns
VariableNames == {"x", "y"}

\* A run that has not started.
NotStarted == [phase |-> "idle", writes |-> {}, snapshot |-> << >>]

\* AutomationExecutor.initVariables({}): the variables are replaced by none.
initVariables(vs) == << >>

\* The effect of a setVariable step on the executor's variables; the value
\* written names the run that wrote it.
setVariable(vs, name, value) == With(vs, name, value)

\* AutomationExecutor.getVariables().
getVariables(vs) == vs

\* Line 570 of a run: executeScheduledAutomation starts on this.executor, the
\* one executor the constructor made (line 415).
RunStarts ==
    /\ \E r \in RunIds :
         /\ runs[r].phase = "idle"
         /\ runs' = [runs EXCEPT ![r].phase = "running"]
         /\ variables' = initVariables(variables)
    /\ UNCHANGED otherThanOverlap

\* executeStep, lines 755-782: a step of the run sets a variable through
\* this.executor.executeStep.
RunWrites ==
    /\ \E r \in RunIds, name \in VariableNames :
         /\ runs[r].phase = "running"
         /\ variables' = setVariable(variables, name, r)
         /\ runs' = [runs EXCEPT ![r].writes = @ \cup {name}]
    /\ UNCHANGED otherThanOverlap

\* Lines 600-609: the run is over and its log entry takes
\* this.executor.getVariables() as the variables of the run.
RunLogs ==
    /\ \E r \in RunIds :
         /\ runs[r].phase = "running"
         /\ runs' = [runs EXCEPT ![r].phase = "done",
                                 ![r].snapshot = getVariables(variables)]
    /\ UNCHANGED <<otherThanOverlap, variables>>

\* A scheduler whose timers are about to fire MaxRuns times.
OverlapInit ==
    /\ GraphIdle /\ EvaluationIdle /\ TimingIdle
    /\ ActivationIdle /\ LoggingIdle /\ SessionIdle /\ CallsIdle
    /\ DirectIdle /\ MirrorIdle
    /\ variables = << >>
    /\ runs = [r \in RunIds |-> NotStarted]

OverlapNext ==
    \/ RunStarts
    \/ RunWrites
    \/ RunLogs

OverlapSpec == OverlapInit /\ [][OverlapNext]_vars

----------------------------------------------------------------------------
(* DesktopScheduler.logExecution and getExecutionLogs: the schedule_logs files *)

\* The ids of the automations that are logged: "1" and "2" as the stored
\* examples have them, and "17" for an id made by Date.now().toString().
LoggedIds == {<<"1">>, <<"2">>, <<"1", "7">>}

\* Date.now() runs from FirstNow to LastNow; at most MaxLogs runs are logged.
FirstNow == 10
LastNow == 12
MaxLogs == 3

\* The limits getExecutionLogs is called with; 10 is the default.
Limits == {1, 2, 10}

\* n.toString() of a number.
RECURSIVE toString(_)
toString(n) ==
    IF n < 10 THEN <<Digits[n + 1]>> ELSE toString(n \div 10) \o <<Digits[(n % 10) + 1]>>

DotJson == <<".", "j", "s", "o", "n">>

\* Line 809: `${automation.id}_${Date.now()}.json`.
logFile(id, now) == id \o <<"_">> \o toString(now) \o DotJson

\* Lines 797-807: the entry, with the fields that tell whose and when it is.
executionLogEntry(id, now) == [automationId |-> id, timestamp |-> now]

startsWith(s, prefix) == Len(prefix) <= Len(s) /\ SubSeq(s, 1, Len(prefix)) = prefix
endsWith(s, suffix) ==
    Len(suffix) <= Len(s) /\ SubSeq(s, Len(s) - Len(suffix) + 1, Len(s)) = suffix

\* The UTF-16 code unit of a character of a file name.
charCode(c) ==
    IF IsDigit(c) THEN 48 + DigitValue(c)
    ELSE CASE c = "." -> 46 [] c = "_" -> 95 [] c = "j" -> 106
           [] c = "n" -> 110 [] c = "o" -> 111 [] c = "s" -> 115

\* The order of Array.prototype.sort without comparator: by code units, a
\* proper prefix first.
Before(a, b) ==
    \E i \in 1..(Len(b)) :
        /\ i <= Len(a) + 1
        /\ SubSeq(a, 1, i - 1) = SubSeq(b, 1, i - 1)
        /\ i = Len(a) + 1 \/ charCode(a[i]) < charCode(b[i])

RECURSIVE sort(_)
sort(S) ==
    IF S = {} THEN <<>>
    ELSE LET first == CHOOSE a \in S : \A b \in S \ {a} : Before(a, b)
         IN  <<first>> \o sort(S \ {first})

reverse(q) == [k \in 1..Len(q) |-> q[Len(q) + 1 - k]]

\* q.slice(0, n).
slice(q, n) == SubSeq(q, 1, IF n < Len(q) THEN n ELSE Len(q))

\* getExecutionLogs(automationId, limit), lines 868-888, over the files fs.
getExecutionLogs(fs, automationId, limit) ==
    LET files == slice(reverse(sort({f \in DOMAIN fs :
                                        startsWith(f, automationId) /\ endsWith(f, DotJson)})),
                       limit)
    IN  [k \in 1..Len(files) |-> fs[files[k]]]

\* logExecution, lines 787-812, at the end of a run of automation id (lines
\* 600-609): the entry is written to its file (writeFileSync replaces a file of
\* the same name).  At most MaxLogs runs finish.
logExecution ==
    /\ Len(executions) < MaxLogs
    /\ \E id \in LoggedIds :
         /\ logFiles' = With(logFiles, logFile(id, clock), executionLogEntry(id, clock))
         /\ executions' = Append(executions, [automationId |-> id, handle |-> NoHandle])
    /\ UNCHANGED <<otherThanTimingAndLogging, tasks, timers, handles, running, firings,
                   returned, clock, listing>>

\* Time passes.
Tick ==
    /\ clock < LastNow
    /\ clock' = clock + 1
    /\ UNCHANGED <<otherThanLogging, logFiles, listing>>

\* A call of getExecutionLogs.
CallGetExecutionLogs ==
    /\ \E id \in LoggedIds, limit \in Limits :
         listing' = [automationId |-> id, limit |-> limit,
                     entries |-> getExecutionLogs(logFiles, id, limit)]
    /\ UNCHANGED <<otherThanLogging, logFiles, clock>>

\* An empty schedule_logs directory.
LogInit ==
    /\ GraphIdle /\ EvaluationIdle /\ TimingIdle
    /\ OverlapIdle /\ ActivationIdle /\ SessionIdle /\ CallsIdle
    /\ DirectIdle /\ MirrorIdle
    /\ logFiles = << >>
    /\ clock = FirstNow
    /\ listing = [automationId |-> <<>>, limit |-> 0, entries |-> <<>>]

LogNext ==
    \/ logExecution
    \/ Tick
    \/ CallGetExecutionLogs

LogSpec == LogInit /\ [][LogNext]_vars

----------------------------------------------------------------------------
(* SelectorPicker.pickSelector *)

\* The calls of pickSelector that can be open together, and the selectors the
\* picker script can report.
MaxCalls == 2
CallIds == 1..MaxCalls
Selectors == {"#a", "#b"}

\* The payload of a selector-picked event: the selector as a string, or an
\* object with the selector and the tag name of the element.
Payloads == [selector : Selectors, form : {"string", "object"}, tagName : {"div", "select"}]

\* The promise of a call: not settled, or resolved with null, with the
\* selector, or with the selector and the option data of a select element.
Unsettled == [state |-> "pending", selector |-> "-", option |-> "-"]
ResolvedNull == [state |-> "resolved", selector |-> "null", option |-> "-"]
ResolvedWith(selector, option) == [state |-> "resolved", selector |-> selector, option |-> option]

\* Lines 56-59, 126-127 and 130: the call after the executor of its promise
\* ran: the timer is set, both listeners are registered, the injection of the
\* picker script is under way.
NewCall ==
    [timer |-> "armed", onPick |-> TRUE, onCancel |-> TRUE, inject |-> "pending",
     script |-> "none", picked |-> "-", outcome |-> Unsettled, handled |-> {}]

\* A cleanup that leaves the listeners registered.
cleanup_ListenersKept(c) == [c EXCEPT !.timer = IF @ = "armed" THEN "cleared" ELSE @]

\* cleanup, lines 61-65: the timer is cleared and both listeners are removed.
cleanup(c) ==
    [c EXCEPT !.timer = IF @ = "armed" THEN "cleared" ELSE @,
              !.onPick = FALSE, !.onCancel = FALSE]

\* resolve(value) of the promise: only the first call settles it.
resolve(c, value) == IF c.outcome = Unsettled THEN [c EXCEPT !.outcome = value] ELSE c

Handled(c, event) == [c EXCEPT !.handled = @ \cup {event}]

\* onPick, lines 67-119, up to its return.
onPick(c, payload) ==
    LET d == [Handled(cleanup(c), "pick") EXCEPT !.picked = payload.selector]
    IN  IF payload.form = "object" /\ payload.tagName = "select"
        THEN [d EXCEPT !.script = "pending"]
        ELSE resolve(d, ResolvedWith(payload.selector, "-"))

\* onCancel, lines 121-124.
onCancel(c) == resolve(Handled(cleanup(c), "cancel"), ResolvedNull)

\* A call of pickSelector.
PickSelector ==
    /\ \E id \in CallIds \ DOMAIN calls :
         /\ \A other \in DOMAIN calls : other < id
         /\ calls' = With(calls, id, NewCall)
    /\ UNCHANGED otherThanCalls

\* ipcMain emits selector-picked: every registered onPick listener runs (a
\* listener registered with once is removed before it runs).
PickEvent ==
    /\ \E id \in DOMAIN calls : calls[id].onPick
    /\ \E payload \in Payloads :
         calls' = [id \in DOMAIN calls |->
                     IF calls[id].onPick THEN onPick(calls[id], payload) ELSE calls[id]]
    /\ UNCHANGED otherThanCalls

\* ipcMain emits selector-cancel.
CancelEvent ==
    /\ \E id \in DOMAIN calls : calls[id].onCancel
    /\ calls' = [id \in DOMAIN calls |->
                   IF calls[id].onCancel THEN onCancel(calls[id]) ELSE calls[id]]
    /\ UNCHANGED otherThanCalls

\* The timer of a call fires, lines 56-59.
TimeoutFires ==
    /\ \E id \in DOMAIN calls :
         /\ calls[id].timer = "armed"
         /\ calls' = [calls EXCEPT ![id] =
                        resolve(Handled(cleanup([@ EXCEPT !.timer = "fired"]), "timeout"),
                                ResolvedNull)]
    /\ UNCHANGED otherThanCalls

\* injectPickerScript settles, lines 130-134: a rejection cleans up and
\* resolves with null.
InjectSettles ==
    /\ \E id \in DOMAIN calls, ok \in BOOLEAN :
         /\ calls[id].inject = "pending"
         /\ calls' = [calls EXCEPT ![id] =
                        IF ok THEN [@ EXCEPT !.inject = "fulfilled"]
                        ELSE resolve(Handled(cleanup([@ EXCEPT !.inject = "rejected"]),
                                             "inject failed"),
                                     ResolvedNull)]
    /\ UNCHANGED otherThanCalls

\* The script that reads the option data of a picked select element settles,
\* lines 102-115: with the data, with nothing, or with an error.
OptionDataSettles ==
    /\ \E id \in DOMAIN calls, res \in {"data", "null", "rejects"} :
         /\ calls[id].script = "pending"
         /\ calls' = [calls EXCEPT ![id] =
                        resolve([@ EXCEPT !.script = "settled"],
                                ResolvedWith(@.picked, IF res = "data" THEN "data" ELSE "-"))]
    /\ UNCHANGED otherThanCalls

PickerInit ==
    /\ GraphIdle /\ EvaluationIdle /\ TimingIdle
    /\ OverlapIdle /\ ActivationIdle /\ LoggingIdle /\ SessionIdle
    /\ calls = << >>
    /\ DirectIdle /\ MirrorIdle

PickerNext ==
    \/ PickSelector
    \/ PickEvent
    \/ CancelEvent
    \/ TimeoutFires
    \/ InjectSettles
    \/ OptionDataSettles

PickerSpec == PickerInit /\ [][PickerNext]_vars

\* A timer that is set fires unless it is cleared, and the scripts run in the
\* page settle.
FairPickerSpec ==
    PickerSpec /\ WF_vars(TimeoutFires) /\ WF_vars(InjectSettles) /\ WF_vars(OptionDataSettles)

----------------------------------------------------------------------------
(* The workflows and contexts a run is started with *)

\* What a node's step can be: its type, and for a conditional whether the
\* fields the evaluation needs (condition type and selector / variable name)
\* are filled in.
AllKinds ==
    {k \in [nodeType : {"automationStep"}, type : StepTypes, configured : BOOLEAN] :
        k.configured \/ k.type \in {"browserConditional", "variableConditional"}}

\* The kinds used in the workflows of MaxNodes nodes.
CoreKinds ==
    {[nodeType |-> "automationStep", type |-> "navigate", configured |-> TRUE],
     [nodeType |-> "automationStep", type |-> "variableConditional", configured |-> TRUE]}

KindsFor(k, all, core) == IF k < MaxNodes THEN all ELSE core

MkNodes(k, kind, flag) ==
    [i \in 1..k |-> [id |-> NodeIds[i], nodeType |-> kind[i].nodeType, type |-> kind[i].type,
                     configured |-> kind[i].configured, isStart |-> flag[i]]]

EdgeRecords(ns) ==
    LET ends == {ns[i].id : i \in 1..Len(ns)} \cup {NoSuchNode}
    IN  [source : ends, target : ends, sourceHandle : Handles]

\* Workflows of any kinds without isStart flags, and workflows of plain steps
\* with any isStart flags.
Workflow(ns, es) ==
    \/ \A i \in 1..Len(ns) : ~ns[i].isStart
    \/ /\ \A i \in 1..Len(ns) : ns[i].type = "navigate"
       /\ \A i \in 1..Len(es) : es[i].sourceHandle = "unset"

\* A workflow beyond MaxNodes and MaxEdges that a run can still finish within
\* MaxIterations: the tree A -> B -> C, A -> D of four plain steps, in which the
\* first edge out of A has a subtree below it.
TreeNodes ==
    MkNodes(4, [i \in 1..4 |-> [nodeType |-> "automationStep", type |-> "navigate",
                                configured |-> TRUE]],
            [i \in 1..4 |-> FALSE])
TreeEdges ==
    <<[source |-> "A", target |-> "B", sourceHandle |-> "unset"],
      [source |-> "B", target |-> "C", sourceHandle |-> "unset"],
      [source |-> "A", target |-> "D", sourceHandle |-> "unset"]>>

Init ==
    /\ \/ /\ \E k \in 0..MaxNodes :
                \E kind \in [1..k -> KindsFor(k, AllKinds, CoreKinds)],
                   flag \in [1..k -> BOOLEAN] :
                   nodes = MkNodes(k, kind, flag)
          /\ edges \in SeqsUpTo(EdgeRecords(nodes), MaxEdges)
          /\ Workflow(nodes, edges)
       \/ nodes = TreeNodes /\ edges = TreeEdges
    /\ nodesMissing \in BOOLEAN
    /\ nodesMissing => nodes = <<>>
    /\ headless \in BOOLEAN
    /\ windowManager = "null"
    /\ stepResults = <<>>
    /\ logs = <<>>
    /\ pc = "entry"
    /\ stack = <<>>
    /\ startQueue = <<>>
    /\ iterations = 0
    /\ visited = {}
    /\ events = <<>>
    /\ started = <<>>
    /\ inflight = {}
    /\ followed = <<>>
    /\ error = NoError
    /\ executor = NoExecutor
    /\ result = Pending
    /\ EvaluationIdle
    /\ TimingIdle
    /\ RestIdle

Next ==
    \/ Begin
    \/ LaunchSettle
    \/ FindStart
    \/ NextStart
    \/ Enter
    \/ Settle
    \/ Follow
    \/ Unwind
    \/ FinallyClose
    \/ CatchClose

Spec == Init /\ [][Next]_vars

----------------------------------------------------------------------------
(* DesktopScheduler.executeScheduledAutomation and executeWorkflowGraph *)

\* The maxIterations of executeWorkflowGraph (the same number as above).
maxIterations == MaxIterations

\* The browserSteps list of requiresBrowser and of DesktopScheduler.executeStep.
schedulerBrowserSteps ==
    {"navigate", "click", "type", "extract", "scroll", "screenshot",
     "selectOption", "fileUpload", "hover"}

\* requiresBrowser that finds no browser step.
requiresBrowser_Never(ns) == FALSE

\* requiresBrowser(automation), over the steps of the automation's nodes.
requiresBrowser(ns) ==
    \E k \in 1..Len(ns) : ns[k].type # "none" /\ ns[k].type \in schedulerBrowserSteps

\* The limit test with >= for >: the run stops one visit earlier.
SchedLimitReached_Early(count) == count >= maxIterations

\* Line 632, `iterations++ > maxIterations`, on the value before the increment.
SchedLimitReached(count) == count > maxIterations

\* Lines 695-702: every edge whose target is a node counts, whatever its source.
schedIndegree(ns, es, id) == Cardinality({i \in 1..Len(es) : es[i].target = id})

Min(S) == CHOOSE x \in S : \A y \in S : x <= y

\* Lines 704-731: the explicit start nodes if there are any, else the nodes of
\* indegree zero, else the nodes of minimal indegree; in node-list order.
schedStartNodes(ns, es) ==
    LET explicit(n) == n.isStart
        zero(n) == schedIndegree(ns, es, n.id) = 0
        minIndegree == Min({schedIndegree(ns, es, ns[k].id) : k \in 1..Len(ns)})
        minimal(n) == schedIndegree(ns, es, n.id) = minIndegree
        explicitStarts == SelectSeq(ns, explicit)
        startNodes == IF explicitStarts # <<>> THEN explicitStarts ELSE SelectSeq(ns, zero)
    IN  IF startNodes = <<>> THEN Ids(SelectSeq(ns, minimal)) ELSE Ids(startNodes)

\* Lines 674-686: the edges to follow out of node n.
schedNextNodes(n, cond, es) ==
    LET branch == IF cond = "true" THEN "if" ELSE "else"
        keepBranch(i) == es[i].source = n.id /\ es[i].sourceHandle = branch
        keepAll(i) == es[i].source = n.id
    IN  IF n.nodeType = "conditional" /\ cond # "undefined"
        THEN SelectSeq(EdgeIndices(es), keepBranch)
        ELSE SelectSeq(EdgeIndices(es), keepAll)

ConfigurationError == [kind |-> "WindowManager not available", node |-> "-"]
SchedLimitError == [kind |-> "Maximum iteration limit reached - possible infinite loop", node |-> "-"]
NoWindowManager(id) == [kind |-> "WindowManager required for conditional evaluation", node |-> id]
NoBrowserWindow(id) == [kind |-> "browser window not available", node |-> id]

SchedAfterSuccess(f, n, cond) ==
    [f EXCEPT !.phase = "follow", !.cond = cond, !.next = schedNextNodes(n, cond, edges), !.op = 0]

\* Lines 558-591: the run begins; a workflow that needs a browser gets its window
\* from the window manager, or fails without one.
SchedBegin ==
    /\ pc = "entry"
    /\ stepResults' = <<>>
    /\ IF requiresBrowser(nodes) /\ windowManager = "null"
       THEN /\ error' = ConfigurationError
            /\ pc' = "log"
            /\ UNCHANGED windowManager
       ELSE /\ windowManager' = IF requiresBrowser(nodes) THEN "window" ELSE windowManager
            /\ pc' = "graph"
            /\ UNCHANGED error
    /\ UNCHANGED <<otherThanGraph, nodes, edges, nodesMissing, headless, interactive,
                   stack, startQueue,
                   iterations, visited, started, inflight, followed, logs>>

\* Lines 620-628 and 694-731: nothing to do without nodes; else the start nodes.
SchedFindStart ==
    /\ pc = "graph"
    /\ IF nodesMissing \/ Len(nodes) = 0
       THEN /\ pc' = "log"
            /\ UNCHANGED startQueue
       ELSE /\ startQueue' = schedStartNodes(nodes, edges)
            /\ pc' = "loop"
    /\ iterations' = 0
    /\ visited' = {}
    /\ UNCHANGED <<otherThanGraph, inputs, interactive, scheduled, stack, started, inflight, followed, error>>

\* Lines 723-730: the loop over the start nodes.
SchedNextStart ==
    /\ pc = "loop" /\ stack = <<>> /\ inflight = {}
    /\ IF startQueue = <<>>
       THEN /\ pc' = "log"
            /\ UNCHANGED <<stack, startQueue>>
       ELSE /\ stack' = <<Frame(Head(startQueue))>>
            /\ startQueue' = Tail(startQueue)
            /\ UNCHANGED pc
    /\ UNCHANGED <<otherThanGraph, inputs, interactive, scheduled, iterations, visited, started, inflight,
                   followed, error>>

\* Lines 630-672 of a call executeGraph(nodeId), up to its first await.  A throw
\* is caught by nothing below executeScheduledAutomation: the whole recursion
\* is abandoned.
SchedEnter ==
    /\ pc = "loop" /\ stack # <<>>
    /\ Top.phase = "call"
    /\ LET id == Top.nodeId
           n == NodeById(id)
           throw(err) == /\ error' = err
                         /\ stack' = <<>>
                         /\ pc' = "log"
       IN
       /\ iterations' = iterations + 1
       /\ IF SchedLimitReached(iterations)
          THEN /\ throw(SchedLimitError)
               /\ UNCHANGED <<visited, started, inflight, stepResults>>
          ELSE /\ visited' = visited \cup {id}
               /\ IF ~HasNode(id)
                  THEN /\ stack' = Pop
                       /\ UNCHANGED <<started, inflight, error, stepResults, pc>>
                  ELSE
                  CASE n.nodeType = "conditional" /\ windowManager = "null" ->
                        /\ throw(NoWindowManager(id))
                        /\ UNCHANGED <<started, inflight, stepResults>>
                    [] n.nodeType = "conditional" /\ windowManager = "noWindow" ->
                        /\ throw(NoBrowserWindow(id))
                        /\ UNCHANGED <<started, inflight, stepResults>>
                    [] n.nodeType # "conditional" /\ n.type = "none" ->
                        /\ stack' = ReplaceTop(SchedAfterSuccess(Top, n, "undefined"))
                        /\ UNCHANGED <<started, inflight, error, stepResults, pc>>
                    [] n.nodeType # "conditional" /\ n.type \in schedulerBrowserSteps
                       /\ windowManager # "window" ->
                        /\ stepResults' = Append(stepResults, FALSE)
                        /\ throw(NoBrowserWindow(id))
                        /\ UNCHANGED <<started, inflight>>
                    [] OTHER ->
                        /\ started' = Append(started, id)
                        /\ inflight' = inflight \cup {Len(started) + 1}
                        /\ stack' = ReplaceTop(AwaitOperation(Top, Len(started) + 1))
                        /\ UNCHANGED <<error, stepResults, pc>>
    /\ UNCHANGED <<otherThanGraph, inputs, interactive, startQueue, followed, logs>>

\* The awaited evaluateConditional / executeStep settles (lines 655-672).
SchedSettle ==
    /\ pc = "loop" /\ stack # <<>>
    /\ Top.phase = "await" /\ Top.op \in inflight
    /\ LET id == Top.nodeId
           n == NodeById(id)
           outcomes == IF n.nodeType = "conditional"
                       THEN {"true", "false", "undefined", "fail"}
                       ELSE {"undefined", "fail"}
       IN  \E o \in outcomes :
             IF o = "fail"
             THEN /\ stepResults' = IF n.nodeType = "conditional" THEN stepResults
                                    ELSE Append(stepResults, FALSE)
                  /\ error' = StepError(id)
                  /\ stack' = <<>>
                  /\ inflight' = {}
                  /\ pc' = "log"
             ELSE /\ stepResults' = Append(stepResults, TRUE)
                  /\ stack' = ReplaceTop(SchedAfterSuccess(Top, n, o))
                  /\ inflight' = inflight \ {Top.op}
                  /\ UNCHANGED <<error, pc>>
    /\ UNCHANGED <<otherThanGraph, inputs, interactive, startQueue, iterations, visited, started,
                   followed, logs>>

\* Lines 688-691: the for-loop over nextNodes.
SchedFollow ==
    /\ pc = "loop" /\ stack # <<>>
    /\ Top.phase = "follow"
    /\ IF Top.next = <<>>
       THEN /\ stack' = Pop
            /\ UNCHANGED followed
       ELSE LET e == Head(Top.next)
            IN  /\ stack' = Append(ReplaceTop([Top EXCEPT !.next = Tail(Top.next)]),
                                   Frame(edges[e].target))
                /\ followed' = Append(followed, [edge |-> e, from |-> Top.nodeId,
                                                 cond |-> Top.cond])
    /\ UNCHANGED <<otherThanGraph, inputs, interactive, scheduled, pc, startQueue, iterations, visited,
                   started, inflight, error>>

\* A log entry that leaves the error out.
logEntry_ErrorDropped(err, steps) ==
    [success |-> err = NoError,
     error |-> NoError,
     stepsExecuted |-> Len(steps),
     stepsSucceeded |-> Len(SelectSeq(steps, LAMBDA r : r))]

\* A log entry that always reports success.
logEntry_AlwaysSuccess(err, steps) ==
    [success |-> TRUE,
     error |-> err,
     stepsExecuted |-> Len(steps),
     stepsSucceeded |-> Len(SelectSeq(steps, LAMBDA r : r))]

\* logExecution 797-807 with the success and error of lines 593-596.
logEntry(err, steps) ==
    [success |-> err = NoError,
     error |-> err,
     stepsExecuted |-> Len(steps),
     stepsSucceeded |-> Len(SelectSeq(steps, LAMBDA r : r))]

\* Lines 593-609 and logExecution 787-812: success or the caught error, then
\* one log entry.
SchedLog ==
    /\ pc = "log"
    /\ logs' = Append(logs, logEntry(error, stepResults))
    /\ pc' = "done"
    /\ UNCHANGED <<otherThanGraph, inputs, interactive, stepResults, stack, startQueue, iterations,
                   visited, started, inflight, followed, error>>

\* The node kinds of a stored automation: a conditional node (no step), or a
\* step node.
SchedKinds ==
    {[nodeType |-> "conditional", type |-> "none", configured |-> TRUE],
     [nodeType |-> "automationStep", type |-> "navigate", configured |-> TRUE],
     [nodeType |-> "automationStep", type |-> "setVariable", configured |-> TRUE],
     [nodeType |-> "automationStep", type |-> "none", configured |-> TRUE]}

SchedCoreKinds ==
    {[nodeType |-> "conditional", type |-> "none", configured |-> TRUE],
     [nodeType |-> "automationStep", type |-> "navigate", configured |-> TRUE]}

SchedInit ==
    /\ \E k \in 0..MaxNodes :
         \E kind \in [1..k -> KindsFor(k, SchedKinds, SchedCoreKinds)],
            flag \in [1..k -> BOOLEAN] :
            nodes = MkNodes(k, kind, flag)
    /\ edges \in SeqsUpTo(EdgeRecords(nodes), MaxEdges)
    /\ Workflow(nodes, edges)
    /\ nodesMissing \in BOOLEAN
    /\ nodesMissing => nodes = <<>>
    /\ headless = FALSE
    /\ windowManager \in {"null", "noWindow", "window"}
    /\ stepResults = <<>>
    /\ logs = <<>>
    /\ pc = "entry"
    /\ stack = <<>>
    /\ startQueue = <<>>
    /\ iterations = 0
    /\ visited = {}
    /\ events = <<>>
    /\ started = <<>>
    /\ inflight = {}
    /\ followed = <<>>
    /\ error = NoError
    /\ executor = NoExecutor
    /\ result = Pending
    /\ EvaluationIdle
    /\ TimingIdle
    /\ RestIdle

SchedNext ==
    \/ SchedBegin
    \/ SchedFindStart
    \/ SchedNextStart
    \/ SchedEnter
    \/ SchedSettle
    \/ SchedFollow
    \/ SchedLog

SchedSpec == SchedInit /\ [][SchedNext]_vars

\* A scheduled run is one chain of awaited promises on the event loop: while a
\* continuation is runnable it is eventually run.
FairSchedSpec == SchedSpec /\ WF_vars(SchedNext)

----------------------------------------------------------------------------
(* useExecution: runAutomation and stopAutomation of the interactive run *)

\* The workflows of the interactive run have at most MaxUseNodes nodes; a run
\* is followed for at most MaxUseVisits node executions (runAutomation has no
\* iteration limit of its own).
MaxUseNodes == 2
MaxUseVisits == 4

\* The number of calls of executeNode so far (each marks its node running).
nodesBegun == Len(SelectSeq(events, LAMBDA e : e.status = "running"))

\* A traversal that never looks at the stop request.
stopRequested_Ignored(ref) == FALSE

\* `if (stopGraphExecutionRef.current) return;` at the head of executeGraph.
stopRequested(ref) == ref.current

\* A frame whose nextNodes are all the edges out of the node, whatever the
\* condition result.
UseAfterNode_EveryEdge(f, n, cond) ==
    [f EXCEPT !.phase = "follow", !.cond = cond, !.next = schedNextNodes(n, "undefined", edges),
              !.op = 0]

\* The frame after executeNode returned: nodeRunning is reset and nextNodes
\* is computed.
UseAfterNode(f, n, cond) ==
    [f EXCEPT !.phase = "follow", !.cond = cond, !.next = schedNextNodes(n, cond, edges), !.op = 0]

\* runAutomation up to its first await: nothing to do without nodes, else the
\* browser is opened and the variables are initialised.
UseBegin ==
    /\ pc = "entry"
    /\ pc' = IF Len(nodes) = 0 THEN "done" ELSE "opening"
    /\ UNCHANGED <<otherThanSession, stopRef, inputs, interactive, scheduled, stack, startQueue,
                   iterations, visited, started, inflight, followed, error>>

\* The awaits of openBrowser and initVariables are over: the start nodes are
\* determined and the loop over them begins.
UseFindStart ==
    /\ pc = "opening"
    /\ startQueue' = schedStartNodes(nodes, edges)
    /\ visited' = {}
    /\ pc' = "loop"
    /\ UNCHANGED <<otherThanSession, stopRef, inputs, interactive, scheduled, stack, iterations,
                   started, inflight, followed, error>>

\* The loops over the start nodes; after the last one the success alert and
\* the finally block.
UseNextStart ==
    /\ pc = "loop" /\ stack = <<>>
    /\ IF startQueue = <<>>
       THEN /\ pc' = "finally"
            /\ UNCHANGED <<stack, startQueue>>
       ELSE /\ stack' = <<Frame(Head(startQueue))>>
            /\ startQueue' = Tail(startQueue)
            /\ UNCHANGED pc
    /\ UNCHANGED <<otherThanSession, stopRef, inputs, interactive, scheduled, iterations, visited,
                   started, inflight, followed, error>>

\* A call executeGraph(nodeId) up to the await inside executeNode: it returns
\* at once after a stop request or for the id of no node, else the node is
\* marked running and the 500 ms delay begins.
UseEnter ==
    /\ pc = "loop" /\ stack # <<>>
    /\ Top.phase = "call"
    /\ nodesBegun < MaxUseVisits
    /\ IF stopRequested(stopRef)
       THEN /\ stack' = Pop
            /\ UNCHANGED <<visited, events>>
       ELSE /\ visited' = visited \cup {Top.nodeId}
            /\ IF ~HasNode(Top.nodeId)
               THEN /\ stack' = Pop
                    /\ UNCHANGED events
               ELSE /\ events' = Append(events, Event(Top.nodeId, "running", NoError))
                    /\ stack' = ReplaceTop([Top EXCEPT !.phase = "delay"])
    /\ UNCHANGED <<otherThanSession, stopRef, inputs, scheduled, executor, result, pc, startQueue,
                   iterations, started, inflight, followed, error>>

\* The delay of executeNode is over: runStep or runConditional is called, or
\* executeNode returns undefined for a node that is neither.
UseDelayEnds ==
    /\ pc = "loop" /\ stack # <<>>
    /\ Top.phase = "delay"
    /\ LET n == NodeById(Top.nodeId)
       IN  IF (n.nodeType = "automationStep" /\ n.type # "none") \/ n.nodeType = "conditional"
           THEN /\ started' = Append(started, n.id)
                /\ inflight' = inflight \cup {Len(started) + 1}
                /\ stack' = ReplaceTop(AwaitOperation(Top, Len(started) + 1))
                /\ UNCHANGED events
           ELSE /\ events' = Append(events, Event(n.id, "success", NoError))
                /\ stack' = ReplaceTop(UseAfterNode(Top, n, "undefined"))
                /\ UNCHANGED <<started, inflight>>
    /\ UNCHANGED <<otherThanSession, stopRef, inputs, scheduled, executor, result, pc, startQueue,
                   iterations, visited, followed, error>>

\* The awaited runStep / runConditional settles: a rejection leaves every
\* executeGraph call and lands in the catch of runAutomation.
UseSettle ==
    /\ pc = "loop" /\ stack # <<>>
    /\ Top.phase = "await" /\ Top.op \in inflight
    /\ LET n == NodeById(Top.nodeId)
           outcomes == IF n.nodeType = "conditional"
                       THEN {"true", "false", "undefined", "fail"}
                       ELSE {"undefined", "fail"}
       IN  \E o \in outcomes :
             IF o = "fail"
             THEN /\ error' = StepError(n.id)
                  /\ stack' = <<>>
                  /\ inflight' = {}
                  /\ pc' = "finally"
                  /\ UNCHANGED events
             ELSE /\ events' = Append(events, Event(n.id, "success", NoError))
                  /\ stack' = ReplaceTop(UseAfterNode(Top, n, o))
                  /\ inflight' = inflight \ {Top.op}
                  /\ UNCHANGED <<error, pc>>
    /\ UNCHANGED <<otherThanSession, stopRef, inputs, scheduled, executor, result, startQueue,
                   iterations, visited, started, followed>>

\* The for-loop over nextNodes.
UseFollow ==
    /\ pc = "loop" /\ stack # <<>>
    /\ Top.phase = "follow"
    /\ IF Top.next = <<>>
       THEN /\ stack' = Pop
            /\ UNCHANGED followed
       ELSE LET e == Head(Top.next)
            IN  /\ stack' = Append(ReplaceTop([Top EXCEPT !.next = Tail(Top.next)]),
                                   Frame(edges[e].target))
                /\ followed' = Append(followed, [edge |-> e, from |-> Top.nodeId,
                                                 cond |-> Top.cond])
    /\ UNCHANGED <<otherThanSession, stopRef, inputs, interactive, scheduled, pc, startQueue,
                   iterations, visited, started, inflight, error>>

\* The finally block of runAutomation: the stop request is cleared.
UseFinally ==
    /\ pc = "finally"
    /\ stopRef' = [stopRef EXCEPT !.current = FALSE]
    /\ pc' = "done"
    /\ UNCHANGED <<otherThanSession, inputs, interactive, scheduled, stack, startQueue, iterations,
                   visited, started, inflight, followed, error>>

\* stopAutomation(), called before runAutomation ("idle") or while the run is
\* going: the request is recorded, with the number of nodes begun so far and
\* what the traversal is waiting for.
StopAutomation ==
    /\ pc \in {"entry", "opening", "loop"}
    /\ ~stopRef.current
    /\ stopRef' = [current |-> TRUE,
                   requestedAt |-> nodesBegun,
                   phase |-> IF pc = "entry" THEN "idle"
                             ELSE IF stack = <<>> THEN "none" ELSE Top.phase]
    /\ UNCHANGED <<otherThanSession, graph>>

UseKinds ==
    {[nodeType |-> "conditional", type |-> "none", configured |-> TRUE],
     [nodeType |-> "automationStep", type |-> "navigate", configured |-> TRUE],
     [nodeType |-> "automationStep", type |-> "none", configured |-> TRUE]}

\* runAutomation is called on any workflow of the editor.
UseInit ==
    /\ \E k \in 0..MaxUseNodes :
         \E kind \in [1..k -> UseKinds] :
            nodes = MkNodes(k, kind, [i \in 1..k |-> FALSE])
    /\ edges \in SeqsUpTo({e \in EdgeRecords(nodes) : NoSuchNode \notin {e.source, e.target}},
                          MaxEdges)
    /\ nodesMissing = FALSE /\ headless = FALSE /\ windowManager = "null"
    /\ stepResults = <<>> /\ logs = <<>>
    /\ pc = "entry" /\ stack = <<>> /\ startQueue = <<>> /\ iterations = 0
    /\ visited = {} /\ events = <<>> /\ started = <<>> /\ inflight = {}
    /\ followed = <<>> /\ error = NoError /\ executor = NoExecutor /\ result = Pending
    /\ EvaluationIdle /\ TimingIdle
    /\ OverlapIdle /\ ActivationIdle /\ LoggingIdle /\ CallsIdle
    /\ SessionIdle
    /\ DirectIdle /\ MirrorIdle

UseRun ==
    \/ UseBegin
    \/ UseFindStart
    \/ UseNextStart
    \/ UseEnter
    \/ UseDelayEnds
    \/ UseSettle
    \/ UseFollow
    \/ UseFinally

UseNext ==
    \/ UseRun
    \/ StopAutomation

UseSpec == UseInit /\ [][UseNext]_vars

\* The event loop keeps running the callbacks that are ready, and every
\* started step settles.
FairUseSpec == UseSpec /\ WF_vars(UseRun)

----------------------------------------------------------------------------
(* The same workflow run by the scheduler and then by the editor, with the  *)
(* same outcomes of its steps and conditions                                *)

\* What the k-th step or conditional evaluation of a run can settle with.
MirrorOutcomes(n) ==
    IF n.nodeType = "conditional" THEN {"true", "false", "undefined", "fail"}
    ELSE {"undefined", "fail"}

\* The outcome with which the awaited operation settles in this step.
outcomeTaken == IF error' # NoError THEN "fail" ELSE stack'[Len(stack)].cond

\* The settling operation settles as the assignment of outcomes says.
AsAssigned == Top.op <= Len(mirror.oracle) /\ outcomeTaken = mirror.oracle[Top.op]

\* The outcome of the next operation in flight is fixed, for both runs.
OracleDecides ==
    /\ mirror.phase \in {"scheduled", "interactive"}
    /\ pc = "loop" /\ stack # <<>>
    /\ Top.phase = "await" /\ Top.op \in inflight
    /\ Top.op = Len(mirror.oracle) + 1
    /\ \E o \in MirrorOutcomes(NodeById(Top.nodeId)) :
         mirror' = [mirror EXCEPT !.oracle = Append(@, o)]
    /\ UNCHANGED <<otherThanMirror, graph>>

\* The scheduled run: executeScheduledAutomation with a browser window.
MirrorSchedBegin == mirror.phase = "scheduled" /\ SchedBegin
MirrorSchedFindStart == mirror.phase = "scheduled" /\ SchedFindStart
MirrorSchedNextStart == mirror.phase = "scheduled" /\ SchedNextStart
MirrorSchedEnter == mirror.phase = "scheduled" /\ SchedEnter
MirrorSchedSettle == mirror.phase = "scheduled" /\ SchedSettle /\ AsAssigned
MirrorSchedFollow == mirror.phase = "scheduled" /\ SchedFollow
MirrorSchedLog == mirror.phase = "scheduled" /\ SchedLog

\* The scheduled run is over: what it did is kept, and the editor is about to
\* run the same workflow.
MirrorSwitch ==
    /\ mirror.phase = "scheduled" /\ pc = "done"
    /\ mirror' = [mirror EXCEPT !.phase = "interactive", !.started = started,
                                !.followed = followed, !.visited = visited,
                                !.error = error]
    /\ pc' = "entry" /\ stack' = <<>> /\ startQueue' = <<>> /\ iterations' = 0
    /\ visited' = {} /\ started' = <<>> /\ inflight' = {} /\ followed' = <<>>
    /\ error' = NoError
    /\ UNCHANGED <<otherThanMirror, inputs, interactive, scheduled>>

\* The interactive run: runAutomation, with no stop request.
MirrorUseBegin == mirror.phase = "interactive" /\ UseBegin
MirrorUseFindStart == mirror.phase = "interactive" /\ UseFindStart
MirrorUseNextStart == mirror.phase = "interactive" /\ UseNextStart
MirrorUseEnter == mirror.phase = "interactive" /\ UseEnter
MirrorUseDelayEnds == mirror.phase = "interactive" /\ UseDelayEnds
MirrorUseSettle == mirror.phase = "interactive" /\ UseSettle /\ AsAssigned
MirrorUseFollow == mirror.phase = "interactive" /\ UseFollow
MirrorUseFinally == mirror.phase = "interactive" /\ UseFinally

\* Any workflow of the editor, stored and scheduled; the scheduler has a
\* browser window.
MirrorInit ==
    /\ \E k \in 0..MaxUseNodes :
         \E kind \in [1..k -> UseKinds] :
            nodes = MkNodes(k, kind, [i \in 1..k |-> FALSE])
    /\ edges \in SeqsUpTo({e \in EdgeRecords(nodes) : NoSuchNode \notin {e.source, e.target}},
                          MaxEdges)
    /\ nodesMissing = FALSE /\ headless = FALSE /\ windowManager = "window"
    /\ stepResults = <<>> /\ logs = <<>>
    /\ pc = "entry" /\ stack = <<>> /\ startQueue = <<>> /\ iterations = 0
    /\ visited = {} /\ events = <<>> /\ started = <<>> /\ inflight = {}
    /\ followed = <<>> /\ error = NoError /\ executor = NoExecutor /\ result = Pending
    /\ EvaluationIdle /\ TimingIdle
    /\ OverlapIdle /\ ActivationIdle /\ LoggingIdle /\ SessionIdle /\ CallsIdle
    /\ DirectIdle
    /\ mirror = [phase |-> "scheduled", oracle |-> <<>>, started |-> <<>>, followed |-> <<>>,
                 visited |-> {}, error |-> NoError]

MirrorNext ==
    \/ OracleDecides
    \/ MirrorSchedBegin
    \/ MirrorSchedFindStart
    \/ MirrorSchedNextStart
    \/ MirrorSchedEnter
    \/ MirrorSchedSettle
    \/ MirrorSchedFollow
    \/ MirrorSchedLog
    \/ MirrorSwitch
    \/ MirrorUseBegin
    \/ MirrorUseFindStart
    \/ MirrorUseNextStart
    \/ MirrorUseEnter
    \/ MirrorUseDelayEnds
    \/ MirrorUseSettle
    \/ MirrorUseFollow
    \/ MirrorUseFinally

MirrorSpec == MirrorInit /\ [][MirrorNext]_vars

----------------------------------------------------------------------------
(* HeadlessExecutor: launch, close, executeStep and evaluateBrowserConditional *)
(* called directly, one call after the other                                *)

\* The most calls made on the executor.
MaxMethodCalls == 4

\* The steps executeStep is called with: one that acts on the page, one that
\* acts on the page and stores what it read (storeKey set), one that only waits.
HeadlessSteps == {"navigate", "extract", "wait"}

\* A call of a method: what it was called with, the await it stands at, how it
\* settled, whether it called a method of the page and whether it wrote a
\* variable.
MethodCall(method, arg, at, outcome, acted, wrote) ==
    [method |-> method, arg |-> arg, at |-> at, outcome |-> outcome,
     acted |-> acted, wrote |-> wrote]

LastCall == methodCalls[Len(methodCalls)]
Busy == methodCalls # <<>> /\ LastCall.outcome = "pending"
SetLast(c) == [methodCalls EXCEPT ![Len(methodCalls)] = c]

\* `if (!this.page)`, lines 70 and 220.
pageMissing(ex) == ex.page = "null"

\* launch(), lines 31-34, up to the await of puppeteer.launch.
HeadlessLaunch ==
    /\ ~Busy /\ Len(methodCalls) < MaxMethodCalls
    /\ methodCalls' = Append(methodCalls,
                             MethodCall("launch", "-", "puppeteer.launch", "pending", FALSE, FALSE))
    /\ UNCHANGED <<otherThanDirect, headlessExecutor>>

\* Lines 34-47: each of the three awaits of launch() resolves or rejects; the
\* browser field is set after the first, the page field after the second.
HeadlessLaunchStep ==
    /\ Busy /\ LastCall.method = "launch"
    /\ \E ok \in BOOLEAN :
        IF ~ok
        THEN /\ methodCalls' = SetLast([LastCall EXCEPT !.outcome = "rejected"])
             /\ UNCHANGED headlessExecutor
        ELSE CASE LastCall.at = "puppeteer.launch" ->
                    /\ headlessExecutor' = [headlessExecutor EXCEPT !.browser = "open"]
                    /\ methodCalls' = SetLast([LastCall EXCEPT !.at = "newPage"])
               [] LastCall.at = "newPage" ->
                    /\ headlessExecutor' = [headlessExecutor EXCEPT !.page = "open"]
                    /\ methodCalls' = SetLast([LastCall EXCEPT !.at = "setViewport"])
               [] LastCall.at = "setViewport" ->
                    /\ methodCalls' = SetLast([LastCall EXCEPT !.outcome = "resolved"])
                    /\ UNCHANGED headlessExecutor
    /\ UNCHANGED otherThanDirect

\* close(), lines 53-55: nothing to do without a browser, else browser.close()
\* is awaited.
HeadlessClose ==
    /\ ~Busy /\ Len(methodCalls) < MaxMethodCalls
    /\ methodCalls' = Append(methodCalls,
                             IF headlessExecutor.browser = "null"
                             THEN MethodCall("close", "-", "-", "resolved", FALSE, FALSE)
                             ELSE MethodCall("close", "-", "browser.close", "pending",
                                             FALSE, FALSE))
    /\ UNCHANGED <<otherThanDirect, headlessExecutor>>

\* Lines 55-58: browser.close() resolves and both fields are cleared, or it
\* rejects and close() rejects with the fields as they were.
HeadlessCloseSettle ==
    /\ Busy /\ LastCall.method = "close"
    /\ \E ok \in BOOLEAN :
        IF ok
        THEN /\ headlessExecutor' = [browser |-> "null", page |-> "null"]
             /\ methodCalls' = SetLast([LastCall EXCEPT !.outcome = "resolved"])
        ELSE /\ methodCalls' = SetLast([LastCall EXCEPT !.outcome = "rejected"])
             /\ UNCHANGED headlessExecutor
    /\ UNCHANGED otherThanDirect

\* executeStep(step), lines 65-136, up to its first await: it throws without a
\* page; else the step calls its method of the page (a wait step sets a timer).
HeadlessExecuteStep ==
    /\ ~Busy /\ Len(methodCalls) < MaxMethodCalls
    /\ \E type \in HeadlessSteps :
        methodCalls' = Append(methodCalls,
                              IF pageMissing(headlessExecutor)
                              THEN MethodCall("executeStep", type, "-", "rejected", FALSE, FALSE)
                              ELSE MethodCall("executeStep", type,
                                              IF type = "wait" THEN "timer" ELSE "page",
                                              "pending", type # "wait", FALSE))
    /\ UNCHANGED <<otherThanDirect, headlessExecutor>>

\* evaluateBrowserConditional(config), lines 206-230, up to its first await: it
\* throws without a page and for a config without type or selector; else it
\* queries the page.
HeadlessEvaluate ==
    /\ ~Busy /\ Len(methodCalls) < MaxMethodCalls
    /\ \E given \in {"complete", "incomplete"} :
        methodCalls' = Append(methodCalls,
                              IF pageMissing(headlessExecutor) \/ given = "incomplete"
                              THEN MethodCall("evaluateBrowserConditional", given, "-",
                                              "rejected", FALSE, FALSE)
                              ELSE MethodCall("evaluateBrowserConditional", given, "page",
                                              "pending", TRUE, FALSE))
    /\ UNCHANGED <<otherThanDirect, headlessExecutor>>

\* The awaited method of the page (or the timer) settles: an extract step then
\* stores what it read (lines 112-115), and the call resolves; or it rejects.
HeadlessPageSettle ==
    /\ Busy /\ LastCall.method \in {"executeStep", "evaluateBrowserConditional"}
    /\ \E ok \in BOOLEAN :
        methodCalls' = SetLast(IF ok /\ LastCall.at = "page"
                               THEN [LastCall EXCEPT !.outcome = "resolved",
                                                     !.wrote = LastCall.arg = "extract"]
                               ELSE IF LastCall.at = "timer"
                               THEN [LastCall EXCEPT !.outcome = "resolved"]
                               ELSE [LastCall EXCEPT !.outcome = "rejected"])
    /\ UNCHANGED <<otherThanDirect, headlessExecutor>>

\* A new HeadlessExecutor.
HeadlessInit == GraphIdle /\ EvaluationIdle /\ TimingIdle /\ RestIdle

HeadlessNext ==
    \/ HeadlessLaunch
    \/ HeadlessLaunchStep
    \/ HeadlessClose
    \/ HeadlessCloseSettle
    \/ HeadlessExecuteStep
    \/ HeadlessEvaluate
    \/ HeadlessPageSettle

HeadlessSpec == HeadlessInit /\ [][HeadlessNext]_vars

----------------------------------------------------------------------------
(* Properties of executeAutomationGraph (checked under Spec) *)

IsRunning(e) == e.status = "running"
IsErrorEvent(e) == e.status = "error"

\* The ids of the nodes visited so far (one "running" event per visit), in order.
Visits == [k \in 1..Len(SelectSeq(events, IsRunning)) |-> SelectSeq(events, IsRunning)[k].node]

Done == pc = "done"

\* No step and no conditional evaluation failed, and neither did launching or
\* closing the headless browser.
NothingFailed ==
    /\ SelectSeq(events, IsErrorEvent) = <<>>
    /\ error \notin {LaunchError, CloseError}

\* The orders n1..nk of all the nodes such that the edges are exactly the
\* chain n1 -> n2 -> ... -> nk.
Chains ==
    LET k == Len(nodes)
    IN  {c \in [1..k -> {nodes[i].id : i \in 1..k}] :
            /\ \A i, j \in 1..k : i # j => c[i] # c[j]
            /\ Len(edges) = k - 1
            /\ \A i \in 1..(k - 1) :
                 \E e \in 1..Len(edges) : edges[e].source = c[i] /\ edges[e].target = c[i + 1]}

HasStep(id) == NodeById(id).type # "none"

\* C1: in a workflow that is one chain n1 -> ... -> nk of non-conditional nodes
\* (of at most MaxIterations + 1 nodes), a run in which nothing fails visits the
\* nodes in the order n1..nk, executes each node's step exactly once in that
\* order, and resolves with success.
C1_LinearChainInOrder ==
    (/\ Done /\ ~noNodes(nodes, nodesMissing) /\ NothingFailed
     /\ \A i \in 1..Len(nodes) : ~isConditionalNode(nodes[i])
     /\ Len(nodes) <= MaxIterations + 1)
    => \A c \in Chains :
           /\ Visits = c
           /\ started = SelectSeq(c, HasStep)
           /\ result = Resolved

\* A finished headless run of a three-node chain whose order is not the order of
\* the node list.
C1_Witness ==
    /\ Done /\ NothingFailed /\ result = Resolved /\ headless
    /\ Len(nodes) = 3 /\ Chains # {}
    /\ Visits = <<"C", "A", "B">>
    /\ started = <<"C", "A", "B">>
    /\ executor.launches = 1

\* C2: every edge followed out of a conditional node leaves that node by the
\* handle of the evaluated result: "if" after true, "else" after false; never
\* the other branch, never an edge without handle.
C2_OnlyTakenBranch ==
    \A k \in 1..Len(followed) :
        LET f == followed[k]
        IN  isConditionalNode(NodeById(f.from))
            => /\ f.cond \in {"true", "false"}
               /\ edges[f.edge].source = f.from
               /\ edges[f.edge].sourceHandle = (IF f.cond = "true" THEN "if" ELSE "else")

\* A finished run in which a conditional node with an "if" and an "else" edge
\* evaluated to false and only the target of the "else" edge was visited.
C2_Witness ==
    /\ Done /\ result = Resolved
    /\ Len(nodes) = 3 /\ isConditionalNode(nodes[1])
    /\ edges = <<[source |-> "A", target |-> "B", sourceHandle |-> "if"],
                 [source |-> "A", target |-> "C", sourceHandle |-> "else"]>>
    /\ followed = <<[edge |-> 2, from |-> "A", cond |-> "false"]>>
    /\ "C" \in visited /\ "B" \notin Range(Visits)

\* C3 as stated: a run never makes more than MaxIterations (10 000) node visits.
C3_AtMostCapVisits == Len(Visits) <= MaxIterations

\* C5 as stated: the traversal starts from the isStart nodes when there are
\* any, and from the nodes of indegree zero otherwise.
C5_ExplicitStartWins ==
    LET explicit(n) == n.isStart
        zero(n) == indegree(nodes, edges, n.id) = 0
        expected == IF SelectSeq(nodes, explicit) # <<>>
                    THEN Ids(SelectSeq(nodes, explicit))
                    ELSE Ids(SelectSeq(nodes, zero))
    IN  (pc = "loop" /\ stack = <<>> /\ visited = {}) => startQueue = expected

\* C6 as stated: with a non-empty node list the start set is never empty and
\* the run never fails with the no-start-node error.
C6_NeverNoStartNode == ~noNodes(nodes, nodesMissing) => error # NoStartError

FirstFailure ==
    LET errs == SelectSeq(events, IsErrorEvent)
    IN  IF errs = <<>> THEN NoError ELSE errs[1].error

\* C8 as stated: once a step or conditional evaluation has failed at n, the
\* call rejects with that same error.
C8_RejectsWithStepError ==
    (Done /\ FirstFailure \notin {NoError, LimitError}) => result = Rejected(FirstFailure)

\* C9: at most one step execution or conditional evaluation is in flight.
C9_OneOperationInFlight == Cardinality(inflight) <= 1

\* A step of the second start node is in flight after the step of a first
\* start node with two outgoing edges has settled.
C9_Witness ==
    /\ Len(findStartNodes(nodes, edges)) >= 2
    /\ Len(started) >= 2 /\ Cardinality(inflight) = 1
    /\ startQueue = <<>> /\ Len(stack) = 1
    /\ \E n \in Range(Visits) : Len(nextNodes(NodeById(n), "undefined", edges)) = 2

\* C10: with an empty or missing node list the call rejects with the no-nodes
\* error and has done nothing else: no executor created, no browser launched,
\* no status event, no step started.
C10_NoNodesFailsFirst ==
    (nodesMissing \/ Len(nodes) = 0)
    => /\ executor = NoExecutor
       /\ events = <<>> /\ started = <<>> /\ visited = {} /\ iterations = 0
       /\ pc \in {"entry", "done"}
       /\ Done => result = Rejected(NoNodesError)

\* A headless call without node list, rejected.
C10_Witness ==
    /\ nodesMissing /\ headless /\ Done
    /\ result = Rejected(NoNodesError)

\* The call settled in one of the ways a run ends: success, a step or
\* conditional failure, no start node, the iteration limit, a failed launch.
SettledByRun == Done /\ result.settled /\ result.error # CloseError

BrowserCapable == \E i \in 1..Len(nodes) : nodes[i].type \in browserSteps

\* C12: past its entry the call has created a HeadlessExecutor exactly when
\* the headless flag is set and some node's step has a browser type; and when
\* it is not so (a pure-logic graph, or headless unset) no browser is launched
\* or closed at any time.
C12_HeadlessOnlyWhenNeeded ==
    /\ pc # "entry" => (executor.created <=> (headless /\ BrowserCapable))
    /\ ~(headless /\ BrowserCapable) => executor = NoExecutor

\* A finished headless run of a graph with steps but no browser step: no
\* executor was created; and its only steps were started.
C12_Witness ==
    /\ Done /\ headless /\ result = Resolved
    /\ ~BrowserCapable /\ Len(started) >= 2
    /\ executor = NoExecutor

\* C13 as stated: a failure of close() never replaces the error of the run:
\* a call that rejects with the close error had no node that reported an error.
C13_CloseFailureSwallowed ==
    (Done /\ result.error = CloseError) => SelectSeq(events, IsErrorEvent) = <<>>

----------------------------------------------------------------------------
(* Properties of evaluateBrowserConditional (checked under CondSpec) *)

\* A call with condition type valueMatches has returned.
ValueCompared == config.browserConditionType = "valueMatches" /\ conditionResult.settled = "returned"

\* C14 as stated: with operator contains the result is true exactly when the
\* transformed text contains expectedValue, with and without parseAsNumber.
C14_ContainsIsSubstring ==
    (ValueCompared /\ operator(config) = "contains")
    => conditionResult.value = includes(applyTransform(rawValue.text, config), config.expectedValue)

\* C15: with parseAsNumber and operator greaterThan, lessThan or equals the
\* result is true exactly when the transformed text and expectedValue, with
\* everything but digits, "." and "-" taken out, both parse as numbers and the
\* numeric relation holds between them; "$1,234.50" with stripCurrency is
\* greater than "1000", and "85%" with "%" removed equals "85".
C15_NumericComparison ==
    (ValueCompared /\ config.parseAsNumber)
    => LET a == parseFloat(stripNonNumeric(applyTransform(rawValue.text, config)))
           b == parseFloat(stripNonNumeric(config.expectedValue))
           parsed == ~a.nan /\ ~b.nan
           x == a.num * Pow10(b.scale)
           y == b.num * Pow10(a.scale)
       IN  /\ operator(config) = "greaterThan" => conditionResult.value = (parsed /\ x > y)
           /\ operator(config) = "lessThan" => conditionResult.value = (parsed /\ x < y)
           /\ operator(config) = "equals" => conditionResult.value = (parsed /\ x = y)
           /\ (/\ rawValue.text = PriceText /\ config.transformType = "stripCurrency"
               /\ config.condition = "greaterThan" /\ config.expectedValue = Thousand)
              => /\ a = [nan |-> FALSE, num |-> 123450, scale |-> 2]
                 /\ b = [nan |-> FALSE, num |-> 1000, scale |-> 0]
                 /\ conditionResult.value = TRUE
           /\ (/\ rawValue.text = PercentText /\ config.transformType = "removeChars"
               /\ config.transformChars = <<"%", "a">>
               /\ config.condition = "equals" /\ config.expectedValue = EightyFive)
              => /\ applyTransform(rawValue.text, config) = EightyFive
                 /\ conditionResult.value = TRUE

\* "$1,234.50" with stripCurrency was compared as a number with "1000" by
\* greaterThan, and the result is true.
C15_Witness ==
    /\ ValueCompared /\ config.parseAsNumber
    /\ rawValue.text = PriceText /\ config.transformType = "stripCurrency"
    /\ config.condition = "greaterThan" /\ config.expectedValue = Thousand
    /\ conditionResult.value = TRUE

----------------------------------------------------------------------------
(* Properties of the DesktopScheduler's tasks and timers (checked under TimerSpec) *)

\* C16: every task is stored under its own scheduleId, so there is at most one
\* per id; every handle that can still fire is the handle of a task in the
\* map, and every firing so far was the firing of such a handle: the handle of
\* a task that was replaced or unscheduled does not fire any more.
C16_OneTaskNoStaleHandle ==
    /\ \A s \in DOMAIN tasks : tasks[s].scheduleId = s
    /\ \A t \in timers :
         \E s \in DOMAIN tasks : t.h \in {tasks[s].cronTask, tasks[s].intervalId}
    /\ \A k \in 1..Len(firings) : firings[k].scheduleId # "none"

\* The interval installed first under "s1" fired, a second schedule was then
\* installed under "s1", and the second handle fired; the first handle is gone.
C16_Witness ==
    /\ handles = 2 /\ DOMAIN tasks = {"s1"}
    /\ tasks["s1"].intervalId = 2
    /\ \A t \in timers : t.h = 2
    /\ Len(firings) = 2
    /\ firings[1].handle = 1 /\ firings[1].type = "interval" /\ firings[1].scheduleId = "s1"
    /\ firings[2].handle = 2 /\ firings[2].scheduleId = "s1"

\* C17 as stated: no task of a cron schedule with an invalid expression is
\* registered, and getScheduledTasks lists none.
C17_InvalidCronNotRegistered ==
    \A t \in getScheduledTasks :
        ~(t.schedule.type = "cron" /\ t.schedule.expression = "invalid")

\* The runs started for handle h, in flight or ended.
RunsOf(h) ==
    Cardinality({r \in running : r.handle = h})
    + Cardinality({k \in 1..Len(executions) : executions[k].handle = h})

Ended(h) == \E k \in 1..Len(executions) : executions[k].handle = h

\* C18 as stated: a once schedule installed with a past datetime has run once,
\* and when that run has ended its task is no longer registered.
C18_PastOnceRemoved ==
    \A s \in DOMAIN tasks :
        tasks[s].schedule = Schedule("once", "-", "past")
        => /\ RunsOf(tasks[s].intervalId) = 1
           /\ ~Ended(tasks[s].intervalId)

\* C19 as stated: the timer of a once schedule with a future datetime of an
\* enabled workflow fires once, and when the run of that firing has ended no
\* task with that timer is registered any more, under whatever scheduleId it
\* was installed.
C19_FutureOnceRemoved ==
    \A k \in 1..Len(firings) :
        (firings[k].type = "once" /\ firings[k].ran)
        => /\ RunsOf(firings[k].handle) = 1
           /\ Ended(firings[k].handle)
              => \A s \in DOMAIN tasks : tasks[s].intervalId # firings[k].handle

\* C20 as stated: at a firing of an interval or cron handle the workflow is run
\* exactly when the enabled flag that getScheduledTasks reports for the task
\* is true.
C20_RunsIffTaskEnabled ==
    \A k \in 1..Len(firings) :
        firings[k].type \in {"interval", "cron"}
        => (firings[k].ran <=> firings[k].reported = "enabled")

----------------------------------------------------------------------------
(* Properties of a scheduled run (checked under SchedSpec / FairSchedSpec) *)

\* The workflow is the two-node cycle A -> B -> A of non-conditional nodes.
IsTwoCycle ==
    /\ Len(nodes) = 2 /\ Len(edges) = 2
    /\ \A i \in 1..2 : nodes[i].nodeType # "conditional"
    /\ \E i, j \in 1..2 :
         /\ edges[i].source = "A" /\ edges[i].target = "B"
         /\ edges[j].source = "B" /\ edges[j].target = "A"

\* The scheduler can run the steps of the workflow: a workflow with browser
\* steps has a window manager.
CanRunSteps == ~(requiresBrowser(nodes) /\ windowManager = "null")

StepFailed == error.kind = "step failed"

\* The run is over, it made MaxIterations + 1 visits and then failed with the
\* iteration-limit error, and its one log entry says so.
EndedAtLimit ==
    /\ pc = "done"
    /\ iterations = maxIterations + 2
    /\ Cardinality(visited) = 2
    /\ logs = <<[success |-> FALSE, error |-> SchedLimitError,
                 stepsExecuted |-> Len(stepResults), stepsSucceeded |-> Len(stepResults)]>>
    /\ Len(stepResults) = Len(started)
    /\ Len(followed) = maxIterations + 1

\* C4: a scheduled run of the cycle A -> B -> A whose steps succeed does not
\* hang: it ends, after visiting A and B up to the iteration cap, with the
\* iteration-limit error, logged as success = false with that error.
C4_CycleEndsAtLimit ==
    (IsTwoCycle /\ CanRunSteps) => <>(StepFailed \/ EndedAtLimit)

\* A finished run of the cycle of two step nodes that alternated A, B up to the cap.
C4_Witness ==
    /\ IsTwoCycle /\ EndedAtLimit
    /\ Len(started) = maxIterations + 1
    /\ \A k \in 1..Len(started) : started[k] = (IF k % 2 = 1 THEN "A" ELSE "B")

----------------------------------------------------------------------------
(* The execution log of a scheduled run (checked under SchedSpec) *)

\* C21: a scheduled run has written no log entry before it finishes and exactly
\* one when it has finished, whether the traversal succeeded or failed; the
\* entry's success is true iff the run ended without error (then every step it
\* executed succeeded), and otherwise its error field holds the failure.
C21_OneLogEntryPerRun ==
    /\ pc # "done" => logs = <<>>
    /\ pc = "done" =>
         /\ Len(logs) = 1
         /\ logs[1].success <=> error = NoError
         /\ logs[1].success => logs[1].stepsSucceeded = logs[1].stepsExecuted
         /\ ~logs[1].success => logs[1].error = error /\ logs[1].error.kind # "none"

\* A finished run whose second step failed: one entry, success = false, with
\* the failure of that step.
C21_Witness ==
    /\ pc = "done" /\ Len(logs) = 1
    /\ ~logs[1].success /\ logs[1].error.kind = "step failed"
    /\ logs[1].stepsExecuted = 2 /\ logs[1].stepsSucceeded = 1

\* Some node of the workflow carries a step that needs a browser.
HasBrowserStep == \E k \in 1..Len(nodes) : nodes[k].type \in schedulerBrowserSteps

----------------------------------------------------------------------------
(* The order of the traversal of executeAutomationGraph (checked under Spec) *)

IsPrefix(s, t) == Len(s) <= Len(t) /\ SubSeq(t, 1, Len(s)) = s

AllPlainNodes == ~nodesMissing /\ \A i \in 1..Len(nodes) : ~isConditionalNode(nodes[i])

\* The indices of the edges that leave node id, ascending from index i.
RECURSIVE OutEdges(_, _)
OutEdges(id, i) ==
    IF i > Len(edges) THEN <<>>
    ELSE (IF edges[i].source = id THEN <<i>> ELSE <<>>) \o OutEdges(id, i + 1)

\* The depth-first walk from the call executeGraph(id), to the given depth, as
\* the sequence of the nodes entered (a call with the id of no node enters
\* nothing) and of the edges followed: every outgoing edge in edge-list order,
\* the whole subtree of an edge before the next edge.
RECURSIVE Walk(_, _), WalkEdges(_, _), WalkStarts(_, _)
Walk(id, depth) ==
    IF depth = 0 \/ ~HasNode(id) THEN <<>>
    ELSE <<[node |-> id]>> \o WalkEdges(OutEdges(id, 1), depth - 1)
WalkEdges(es, depth) ==
    IF es = <<>> THEN <<>>
    ELSE <<[edge |-> Head(es)]>> \o Walk(edges[Head(es)].target, depth)
                                 \o WalkEdges(Tail(es), depth)
WalkStarts(ids, depth) ==
    IF ids = <<>> THEN <<>>
    ELSE Walk(Head(ids), depth) \o WalkStarts(Tail(ids), depth)

\* The walk from the nodes without incoming edge, in node-list order.
ExpectedWalk ==
    LET roots == SelectSeq(nodes, LAMBDA n : indegree(nodes, edges, n.id) = 0)
    IN  WalkStarts(Ids(roots), MaxIterations + 2)
ExpectedVisits ==
    LET w == SelectSeq(ExpectedWalk, LAMBDA x : "node" \in DOMAIN x)
    IN  [k \in 1..Len(w) |-> w[k].node]
ExpectedEdges ==
    LET w == SelectSeq(ExpectedWalk, LAMBDA x : "edge" \in DOMAIN x)
    IN  [k \in 1..Len(w) |-> w[k].edge]

\* C29: in a workflow of non-conditional nodes the nodes entered and the edges
\* followed so far are always a prefix of the depth-first walk that takes every
\* outgoing edge in edge-list order and the start nodes in node-list order, and
\* a run that resolves has made the whole walk; each node's step has finished
\* (its success is reported) before the next node is entered.
C29_DepthFirstInEdgeOrder ==
    AllPlainNodes =>
        /\ IsPrefix(Visits, ExpectedVisits)
        /\ IsPrefix([k \in 1..Len(followed) |-> followed[k].edge], ExpectedEdges)
        /\ \A k \in 2..Len(events) :
             events[k].status = "running"
             => events[k - 1].status = "success"
        /\ (Done /\ result = Resolved) =>
             /\ Visits = ExpectedVisits
             /\ [k \in 1..Len(followed) |-> followed[k].edge] = ExpectedEdges

\* A finished run of the tree A -> B -> C, A -> D: C, below the first edge out
\* of A, was visited before D, the target of the second edge.
C29_Witness ==
    /\ Done /\ result = Resolved
    /\ nodes = TreeNodes /\ edges = TreeEdges
    /\ Visits = <<"A", "B", "C", "D">>
    /\ [k \in 1..Len(followed) |-> followed[k].edge] = <<1, 2, 3>>

\* The number of walks of at most the given length from a start node to node id.
RECURSIVE Paths(_, _)
Paths(id, length) ==
    LET preds == {e \in 1..Len(edges) : edges[e].target = id /\ HasNode(edges[e].source)}
        Sum[S \in SUBSET preds] ==
            IF S = {} THEN 0
            ELSE LET e == CHOOSE x \in S : TRUE
                 IN  Paths(edges[e].source, length - 1) + Sum[S \ {e}]
    IN  (IF indegree(nodes, edges, id) = 0 THEN 1 ELSE 0)
        + (IF length = 0 THEN 0 ELSE Sum[preds])

Count(seq, x) == Cardinality({k \in 1..Len(seq) : seq[k] = x})

\* C30: a call for a node that exists executes it whether or not the node is
\* in the visited set: the visits made are the calls entered for existing
\* nodes, so a resolved run of a workflow of non-conditional nodes has visited
\* every node once per path from a start node, and has executed its step as
\* often.
C30_VisitedNeverSuppresses ==
    /\ (Done /\ result = Resolved) =>
         Len(Visits) = Len(findStartNodes(nodes, edges))
                       + Cardinality({k \in 1..Len(followed) :
                                        HasNode(edges[followed[k].edge].target)})
    /\ (Done /\ result = Resolved /\ AllPlainNodes) =>
         \A i \in 1..Len(nodes) :
            /\ Count(Visits, nodes[i].id) = Paths(nodes[i].id, MaxIterations + 1)
            /\ HasStep(nodes[i].id) => Count(started, nodes[i].id) = Count(Visits, nodes[i].id)

\* A finished run of A -> C, B -> C: C, already in the visited set when it was
\* reached from B, was executed on both arrivals.
C30_Witness ==
    /\ Done /\ result = Resolved
    /\ Len(nodes) = 3 /\ Len(edges) = 2
    /\ edges[1].source = "A" /\ edges[1].target = "C"
    /\ edges[2].source = "B" /\ edges[2].target = "C"
    /\ Visits = <<"A", "C", "B", "C">>
    /\ started = <<"A", "C", "B", "C">>
    /\ visited = {"A", "B", "C"}

----------------------------------------------------------------------------
(* unscheduleAutomation (checked under TimerSpec) *)

\* The handles of the task registered under sid.
HandlesOf(sid) == {tasks[sid].cronTask, tasks[sid].intervalId} \ {NoHandle}

\* C22: a call of unscheduleAutomation that returns true has removed one task
\* from the map and every handle of that task from the timers that can fire,
\* leaving the other tasks and timers alone; a call for an id without task
\* returns false and changes neither tasks nor timers.  A handle that is no
\* longer among the timers never fires and never comes back: only handles that
\* can fire do fire, a run starts only from a firing or from scheduling, and a
\* new timer always gets a fresh handle.
C22_UnscheduleStopsTask ==
    /\ [][CallUnschedule =>
            \/ /\ returned' = FALSE
               /\ ScheduleIds \ DOMAIN tasks # {}
               /\ UNCHANGED <<tasks, timers, running>>
            \/ /\ returned' = TRUE
               /\ \E sid \in DOMAIN tasks :
                    /\ DOMAIN tasks' = DOMAIN tasks \ {sid}
                    /\ \A s \in DOMAIN tasks' : tasks'[s] = tasks[s]
                    /\ timers' = {t \in timers : t.h \notin HandlesOf(sid)}
                    /\ UNCHANGED running]_vars
    /\ [][/\ \A t \in timers' \ timers : t.h > handles /\ t.h = handles'
          /\ Len(firings') > Len(firings) =>
                \E t \in timers : t.h = firings'[Len(firings')].handle
          /\ running' \ running # {} => (Len(firings') > Len(firings) \/ handles' > handles)
          /\ handles' >= handles]_vars

\* Schedule s1 was unscheduled after its interval timer had fired once and
\* started a run: its task is gone and its handle can no longer fire, while the
\* task and timer of schedule w1 remain.
C22_Witness ==
    /\ returned = TRUE
    /\ DOMAIN tasks = {"w1"} /\ tasks["w1"].intervalId = 2
    /\ handles = 2
    /\ \A t \in timers : t.h = 2
    /\ timers # {}
    /\ Len(firings) = 1 /\ firings[1].handle = 1 /\ firings[1].scheduleId = "s1"
    /\ firings[1].type = "interval" /\ firings[1].ran

----------------------------------------------------------------------------
(* loadAndActivateSchedules (checked under LoadSpec) *)

\* The schedule at position i has been passed by the loop with the outcome o.
Passed(i, o) == i <= Len(loading.outcomes) /\ loading.outcomes[i] = o

\* No import, listing or load has failed.
NothingRejected == \A i \in 1..Len(loading.outcomes) :
                      loading.outcomes[i] \notin {"list failed", "rejects"}

----------------------------------------------------------------------------
(* The variables of overlapping scheduled runs (checked under OverlapSpec) *)

\* The variables a run has written, each with the run's own value.
OwnWrites(r) == [name \in runs[r].writes |-> r]

\* C24 as stated: each run has its own variables: while a run is going the
\* variables it works on are exactly the ones it has written, whatever any
\* other run does, and the snapshot in its log entry is exactly its own writes.
C24_RunsOwnVariables ==
    \A r \in RunIds :
        /\ runs[r].phase = "running" => getVariables(variables) = OwnWrites(r)
        /\ runs[r].phase = "done" => runs[r].snapshot = OwnWrites(r)

----------------------------------------------------------------------------
(* getExecutionLogs (checked under LogSpec) *)

\* C26 as stated: what getExecutionLogs(automationId, limit) returned has at
\* most limit entries, every entry is of exactly that automation, and the
\* entries run from the most recent to the oldest.
C26_LogsOfThatAutomation ==
    /\ Len(listing.entries) <= listing.limit
    /\ \A k \in 1..Len(listing.entries) :
         listing.entries[k].automationId = listing.automationId
    /\ \A k, j \in 1..Len(listing.entries) :
         k < j => listing.entries[k].timestamp >= listing.entries[j].timestamp

----------------------------------------------------------------------------
(* stopAutomation during an interactive run (checked under FairUseSpec) *)

IsSuccess(e) == e.status = "success"

\* C27: once stopAutomation has been called during a run no further node
\* begins: the number of nodes begun stays what it was at the request, and no
\* step is started for a node that had not begun.  The request itself aborts
\* nothing: it leaves the calls in progress and the step in flight as they are,
\* every step in flight settles by itself, and a run that ends without a failed
\* step has completed every node it began.
C27_StopPreventsNextNode ==
    /\ [](stopRef.requestedAt >= 0 => Len(Visits) = stopRef.requestedAt)
    /\ [](Len(started) <= Len(Visits))
    /\ [][stopRef'.current /\ ~stopRef.current
          => UNCHANGED <<stack, inflight, started, events, error, pc>>]_vars
    /\ []((Done /\ error = NoError)
          => Len(SelectSeq(events, IsSuccess)) = Len(Visits))
    /\ \A op \in 1..MaxUseVisits : (op \in inflight) ~> (op \notin inflight)

\* stopAutomation was called while the step of A was in flight; the step
\* completed, the run is over, and B, the target of the edge out of A, never
\* began.
C27_Witness ==
    /\ Done /\ error = NoError
    /\ stopRef.requestedAt = 1 /\ stopRef.phase = "await"
    /\ Len(nodes) = 2 /\ Len(edges) = 1
    /\ edges[1].source = "A" /\ edges[1].target = "B"
    /\ events = <<Event("A", "running", NoError), Event("A", "success", NoError)>>
    /\ started = <<"A">>
    /\ Len(followed) = 1
    /\ "B" \notin visited

----------------------------------------------------------------------------
(* pickSelector (checked under FairPickerSpec) *)

Settled(id) == calls[id].outcome # Unsettled

\* C28: every call of pickSelector resolves, and what it resolved with never
\* changes; it resolves with the selector of a selector-picked event it
\* handled (with the option data of a select element appended), or with null
\* after a selector-cancel event, after its timeout or after the injection of
\* the picker script failed; from the moment its outcome is decided its timer
\* is no longer set and neither of its listeners is registered, so no later
\* event reaches it.
C28_PickResolvesOnce ==
    /\ [](\A id \in DOMAIN calls :
            LET c == calls[id]
            IN  /\ c.outcome.state \in {"pending", "resolved"}
                /\ (Settled(id) \/ c.script # "none")
                   => c.timer # "armed" /\ ~c.onPick /\ ~c.onCancel
                /\ Settled(id) /\ c.outcome # ResolvedNull
                   => "pick" \in c.handled /\ c.outcome.selector = c.picked
                /\ c.outcome = ResolvedNull
                   => c.handled \cap {"cancel", "timeout", "inject failed"} # {}
                /\ (c.handled = {"pick"} /\ c.script # "pending") => c.outcome.selector = c.picked)
    /\ [][\A id \in DOMAIN calls :
            Settled(id) => /\ calls'[id].outcome = calls[id].outcome
                           /\ calls'[id].timer = calls[id].timer
                           /\ calls'[id].handled \subseteq calls[id].handled \cup {"inject failed"}]_vars
    /\ \A id \in CallIds : (id \in DOMAIN calls) ~> (id \in DOMAIN calls /\ Settled(id))

\* The first call resolved with the selector of a picked select element and
\* its option data; the second call, made after that pick, was cancelled.  The
\* cancel event did not reach the first call.
C28_Witness ==
    /\ DOMAIN calls = {1, 2}
    /\ calls[1].outcome = ResolvedWith("#a", "data")
    /\ calls[1].handled = {"pick"}
    /\ calls[1].timer = "cleared" /\ ~calls[1].onPick /\ ~calls[1].onCancel
    /\ calls[2].outcome = ResolvedNull
    /\ calls[2].handled = {"cancel"}
    /\ calls[2].timer = "cleared"

----------------------------------------------------------------------------
(* The status events of a visit (checked under Spec) *)

EventsOf(n, status) ==
    Cardinality({k \in 1..Len(events) : events[k].node = n /\ events[k].status = status})

\* C31 as stated: every visit emits "running" and then at most one terminal
\* event, "success" or "error", never both: for every node the terminal events
\* emitted so far are no more than its visits begun, and a run that is over
\* has emitted exactly one terminal event for every visit.
C31_OneTerminalEventPerVisit ==
    \A i \in 1..Len(nodes) :
        LET n == nodes[i].id
        IN  /\ EventsOf(n, "success") + EventsOf(n, "error") <= EventsOf(n, "running")
            /\ Done => EventsOf(n, "success") + EventsOf(n, "error") = EventsOf(n, "running")

----------------------------------------------------------------------------
(* The start nodes of the scheduler and of findStartNodes (checked under SchedSpec) *)

\* C32 as stated: the scheduler counts valid edges only, so an edge whose
\* source is the id of no node adds nothing to the indegree of its target, and
\* for a workflow without isStart flags for which findStartNodes finds a start
\* node the scheduler selects the same start nodes.
C32_SameStartNodes ==
    /\ \A k \in 1..Len(nodes) :
         schedIndegree(nodes, edges, nodes[k].id) = indegree(nodes, edges, nodes[k].id)
    /\ ((\A k \in 1..Len(nodes) : ~nodes[k].isStart) /\ findStartNodes(nodes, edges) # <<>>)
         => schedStartNodes(nodes, edges) = findStartNodes(nodes, edges)

----------------------------------------------------------------------------
(* A once schedule of a disabled workflow (checked under TimerSpec) *)

\* C34 as stated: a once schedule installed for a workflow whose enabled flag
\* is false never runs the workflow, whether its datetime is in the future or
\* in the past: no call of executeScheduledAutomation is ever in flight for it
\* (so no node is executed and no log entry is written).
C34_DisabledOnceNeverRuns ==
    \A r \in running :
        r.automation.schedule.type = "once"
        => ~(r.automation.hasEnabled /\ ~r.automation.enabled)

----------------------------------------------------------------------------
(* The counts of an execution-log entry (checked under SchedSpec) *)

\* C35: every log entry written by the scheduler has
\* 0 <= stepsSucceeded <= stepsExecuted; with success = true every executed
\* step succeeded and there is no error; with success = false the error is
\* present and at most one executed step is counted as not succeeded.  The
\* counts are those of the run's stepResults, in which only the last result can
\* be a failure.
C35_LogCountsConsistent ==
    /\ \A k \in 1..Len(logs) :
         LET l == logs[k]
         IN  /\ 0 <= l.stepsSucceeded /\ l.stepsSucceeded <= l.stepsExecuted
             /\ l.success => l.stepsSucceeded = l.stepsExecuted /\ l.error = NoError
             /\ ~l.success => l.error # NoError /\ l.stepsExecuted - l.stepsSucceeded <= 1
             /\ l.stepsExecuted = Len(stepResults)
    /\ \A j \in 1..Len(stepResults) : ~stepResults[j] => j = Len(stepResults) /\ error # NoError

\* A finished run whose first step succeeded and whose conditional then
\* failed: success = false with an error, and the one executed step succeeded.
C35_Witness ==
    /\ pc = "done" /\ Len(logs) = 1
    /\ ~logs[1].success /\ logs[1].error.kind = "step failed"
    /\ logs[1].stepsExecuted = 1 /\ logs[1].stepsSucceeded = 1
    /\ Len(started) = 2
    /\ NodeById(started[2]).nodeType = "conditional"

----------------------------------------------------------------------------
(* One log file per finished run (checked under LogSpec) *)

\* The log entries stored for automation id, and its finished runs.
StoredFor(id) == {f \in DOMAIN logFiles : logFiles[f].automationId = id}
FinishedRunsOf(id) == {k \in 1..Len(executions) : executions[k].automationId = id}

\* C36 as stated: every finished run leaves its own log file: for every
\* automation the number of stored entries equals the number of its finished
\* runs, also when two of its runs finish in the same millisecond.
C36_OneFilePerFinishedRun ==
    \A id \in LoggedIds : Cardinality(StoredFor(id)) = Cardinality(FinishedRunsOf(id))

----------------------------------------------------------------------------
(* No orphan timers, and cleanup (checked under TimerSpec) *)

\* C37: whatever calls and firings have happened, every timer or cron handle
\* that can still fire belongs to exactly one task of the map, so an empty map
\* means that nothing can fire; each firing is the firing of a handle whose
\* task is in the map at that moment; and cleanup() leaves the map empty and
\* no handle able to fire, whatever was installed before.
C37_NoOrphanTimers ==
    /\ [](\A t \in timers :
            Cardinality({s \in DOMAIN tasks : t.h \in HandlesOf(s)}) = 1)
    /\ [](DOMAIN tasks = {} => timers = {})
    /\ [][TimerFires => \E t \in timers :
                           /\ TaskOf(t.h) \in DOMAIN tasks
                           /\ firings'[Len(firings')].handle = t.h]_vars
    /\ [][CallCleanup => DOMAIN tasks' = {} /\ timers' = {} /\ UNCHANGED running]_vars

\* cleanup() was called after two handles had been created and an interval
\* timer had fired: the map is empty and nothing can fire.
C37_Witness ==
    /\ returned = TRUE /\ handles = 2
    /\ DOMAIN tasks = {} /\ timers = {}
    /\ Len(firings) = 1 /\ firings[1].type = "interval" /\ firings[1].scheduleId # "none"

----------------------------------------------------------------------------
(* A stop request and the next run; the end of a run (checked under UseSpec) *)

\* C39 as stated: a stop request made while no run is in progress does not
\* keep the next run from executing its nodes (a run that ended without error
\* has begun every start node), and when a run has ended the stop flag is
\* cleared.
C39_StopAffectsOnlyItsRun ==
    /\ (Done /\ stopRef.phase = "idle" /\ error = NoError)
         => \A k \in 1..Len(nodes) :
              nodes[k].id \in Range(schedStartNodes(nodes, edges)) => nodes[k].id \in Range(Visits)
    /\ Done => ~stopRef.current

\* C40 as stated: with no stop request a run performs a bounded number of node
\* visits and then ends: however many visits the run is followed for, it never
\* stands before yet another node when it has made that many.
C40_BoundedVisits ==
    ~(/\ pc = "loop" /\ stack # <<>> /\ Top.phase = "call"
      /\ HasNode(Top.nodeId)
      /\ stopRef.requestedAt < 0 /\ error = NoError
      /\ Len(Visits) = MaxUseVisits)

----------------------------------------------------------------------------
(* The page guard of the HeadlessExecutor (checked under HeadlessSpec) *)

\* launch() resolved before call i and close() has not been called since.
LaunchedAt(i) ==
    \E j \in 1..(i - 1) :
        /\ methodCalls[j].method = "launch" /\ methodCalls[j].outcome = "resolved"
        /\ \A k \in (j + 1)..(i - 1) : methodCalls[k].method # "close"

\* C38 as stated: executeStep and evaluateBrowserConditional act on the page
\* only between a completed launch() and the next close(): a call made before
\* launch() has completed or after close() rejects, calls no method of the
\* page and writes no variable.
C38_ActsOnlyOnLaunchedPage ==
    \A i \in 1..Len(methodCalls) :
        (methodCalls[i].method \in {"executeStep", "evaluateBrowserConditional"}
         /\ ~LaunchedAt(i))
        => /\ methodCalls[i].outcome = "rejected"
           /\ ~methodCalls[i].acted
           /\ ~methodCalls[i].wrote

----------------------------------------------------------------------------
(* The scheduled and the interactive traversal (checked under MirrorSpec) *)

====
